---------------------------- MODULE Spec2Model ----------------------------
(***************************************************************************)
(* A state-machine model of the DynamO simulation container                *)
(* (Simulation in simulation.cpp), the Dumbbells capture interaction and   *)
(* the cell lists of CGCells (both in sleep.hpp).                          *)
(*                                                                         *)
(* Times are whole ticks; HUGE_VAL stands for the infinite time.  Code     *)
(* that the repository keeps elsewhere (the scheduler, the capture-map     *)
(* base class, the root finders of the Liouvillean) is modelled by its     *)
(* interface: what a root finder returns is an input of the action that    *)
(* calls it.                                                               *)
(***************************************************************************)
EXTENDS Integers, Sequences, FiniteSets, TLC

(***************************************************************************)
(* Bounds of the model.                                                    *)
(***************************************************************************)
MaxSpecies == 2   \* longest species list explored
MaxPlugins == 1   \* longest output-plugin list explored
MaxGlobals == 2   \* longest globals list explored
MaxEvents == 2    \* events explored per run of the event loop
MaxCounter == 1   \* largest collision counter explored in the lifecycle
MaxTime == 1      \* latest system time at which a step is explored
MaxInteractions == 2  \* longest interaction list explored by the lookups
MaxCollisions == 3    \* events of one particle, and streams without an event, in the clock model
MaxSchedEvents == 2   \* events held by a scheduler in the replica-exchange model
MaxExchanges == 2     \* earlier states of the replica pair that are remembered

(***************************************************************************)
(* Simulation::status, in the order initialise() assigns the values.       *)
(***************************************************************************)
START             == 0
SPECIES_INIT      == 1
DYNAMICS_INIT     == 2
INTERACTION_INIT  == 3
LOCAL_INIT        == 4
GLOBAL_INIT       == 5
SYSTEM_INIT       == 6
ENSEMBLE_INIT     == 7
SCHEDULER_INIT    == 8
OUTPUTPLUGIN_INIT == 9
INITIALISED       == 10

DefaultEndEventCount == 100000
HUGE_VAL == 1000000

VARIABLES
  \* ---- Simulation ----
  status,          \* lifecycle phase
  loaded,          \* a configuration was loaded: dynamics, BCs, ensemble, ptrScheduler are set
  particles,       \* IDs of the particles
  species,         \* sequence of species, each the set of particle IDs of its range
  interactions,    \* sequence of [range, maxIntDist]; range is a set of pairs {p, q}
  locals,          \* sequence of local names
  globals,         \* sequence of global names
  systems,         \* sequence of system names
  outputPlugins,   \* sequence of plugin names
  periodic,        \* BCs is a BCPeriodic
  primaryCellSize, \* <<x, y, z>>
  systemTime,
  eventCount,
  endEventCount,
  freestreamAcc,
  pecTime,         \* per particle: time streamed since the particle was last updated
  \* ---- scheduler ----
  schedInitialised, \* Scheduler::initialise has run
  collCount,        \* per-particle collision counter
  queue,            \* set of pending events [p1, p2, type, dt, c1, c2]
  \* ---- ISingleCapture / IDumbbells ----
  captureMap,       \* set of captured pairs {p, q}
  \* ---- the call that produced this state ----
  call,             \* [op, threw, ret, sched, ev, updates]
  phaseLog,         \* statuses assigned by the last initialise(), in order
  initOrder,        \* component initialise(ID) calls of the last initialise(), in order
  \* ---- CGCells ----
  debugBuild,       \* compiled with DYNAMO_DEBUG
  cells,            \* cells[c] = head of the list of cell c (cellStruct::list)
  partCellData,     \* partCellData[ID] = [prev, next, cell]
  linked,           \* particles a caller has added and not yet removed
  \* ---- replica exchange ----
  replicas,         \* the two simulations of an exchange, << >> when none is set up
  exchanges,        \* the values replicas had before each of the last exchanges, oldest first
  units,            \* [unitLength, unitTime], the simulation's unit scales
  lastRunMFT,       \* mean free time of the last run, in simulation units
  properties,       \* _properties: [L, T], a length and a time held in simulation units
  topology,         \* sequence of structure names
  xmlFile,          \* the configuration file on disk, NoFile when there is none
  cellOverlap,      \* for every neighbour-list global, by its place in globals: its cells overlap
  liouvillean,      \* the dynamics in use: "Newtonian", "Compression" or "null"
  ptrScheduler,     \* the scheduler's class: "NeighbourList", "Dumb", or "null" before a load
  ipCompression,    \* the IPCompression plugin: [growthRate, oldLio]
  lastReset         \* the last reset(): [happened, outputPlugins], the plugins it cleared

simVars == << status, loaded, particles, species, interactions, locals, globals,
              systems, outputPlugins, periodic, primaryCellSize, systemTime,
              eventCount, endEventCount, freestreamAcc, pecTime >>
schedVars == << schedInitialised, collCount, queue >>
cellVars == << debugBuild, cells, partCellData, linked >>
extVars == << exchanges, units, lastRunMFT, properties, topology, xmlFile,
              cellOverlap, liouvillean, ptrScheduler, ipCompression, lastReset >>
vars == << simVars, schedVars, captureMap, call, phaseLog, initOrder, replicas, extVars,
           cellVars >>

(***************************************************************************)
(* Pairs of particles.  A selector (C2Range) is the set of pairs it        *)
(* matches; {p} is the self pair (p, p).                                   *)
(***************************************************************************)
AllPairs(P) == { {p, q} : p \in P, q \in P }
NonSelfPairs(P) == { pr \in AllPairs(P) : Cardinality(pr) = 2 }
SelfPairs(P) == { {p} : p \in P }

RECURSIVE SeqSum(_)
SeqSum(s) == IF s = << >> THEN 0 ELSE Head(s) + SeqSum(Tail(s))

Max(a, b) == IF a > b THEN a ELSE b

(***************************************************************************)
(* Configuration documents loadXMLfile can be given.                       *)
(***************************************************************************)
Dumbbells(rng, len, rad) == [range |-> rng, length |-> len, r |-> rad]

DocOpen ==
  [ particles |-> {0, 1}, species |-> << {0, 1} >>,
    interactions |-> << Dumbbells(AllPairs({0, 1}), 1, 0) >>,
    locals |-> << "Wall" >>, globals |-> << >>,
    periodic |-> FALSE, size |-> << 4, 4, 4 >> ]
DocPeriodic ==
  [ particles |-> {0, 1}, species |-> << {0, 1} >>,
    interactions |-> << Dumbbells(AllPairs({0, 1}), 1, 0) >>,
    locals |-> << "Wall" >>, globals |-> << >>,
    periodic |-> TRUE, size |-> << 4, 4, 4 >> ]
DocNoPair ==
  [ particles |-> {0, 1}, species |-> << {0}, {1} >>,
    interactions |-> << Dumbbells(SelfPairs({0, 1}), 1, 0) >>,
    locals |-> << >>, globals |-> << >>,
    periodic |-> FALSE, size |-> << 4, 4, 4 >> ]
DocThree ==
  [ particles |-> {0, 1, 2}, species |-> << {0, 1, 2} >>,
    interactions |-> << Dumbbells(AllPairs({0, 1, 2}), 1, 0) >>,
    locals |-> << >>, globals |-> << >>,
    periodic |-> FALSE, size |-> << 4, 4, 4 >> ]
Docs == { DocPeriodic, DocNoPair }

SpeciesArgs == { {0, 1} }        \* species handed to addSpecies
PluginNames == { "Misc", "Ticker" }   \* names handed to addOutputPlugin

(***************************************************************************)
(* The record of the call that produced the current state.                 *)
(***************************************************************************)
NoEvent == [p1 |-> -1, p2 |-> -1, type |-> "NOEVENT", dt |-> 0, c1 |-> 0, c2 |-> 0]
MkCall(op, threw, ret, sched, ev, updates) ==
  [op |-> op, threw |-> threw, ret |-> ret, sched |-> sched, ev |-> ev,
   updates |-> updates]
Threw(op) == MkCall(op, TRUE, FALSE, FALSE, NoEvent, << >>)
Done(op) == MkCall(op, FALSE, FALSE, FALSE, NoEvent, << >>)

(***************************************************************************)
(* Simulation::Simulation()                                                *)
(***************************************************************************)
SimInit ==
  /\ status = START
  /\ loaded = FALSE
  /\ particles = {}
  /\ species = << >>
  /\ interactions = << >>
  /\ locals = << >>
  /\ globals = << >>
  /\ systems = << >>
  /\ outputPlugins = << >>
  /\ periodic = FALSE
  /\ primaryCellSize = << 1, 1, 1 >>
  /\ systemTime = 0
  /\ eventCount = 0
  /\ endEventCount = DefaultEndEventCount
  /\ freestreamAcc = 0
  /\ pecTime = [p \in {} |-> 0]
  /\ schedInitialised = FALSE
  /\ collCount = [p \in {} |-> 0]
  /\ queue = {}
  /\ captureMap = {}
  /\ call = Done("construct")
  /\ phaseLog = << >>
  /\ initOrder = << >>

(***************************************************************************)
(* Simulation::getInteraction: the first interaction in list order whose   *)
(* selector matches the pair; 0 when none does (the code throws).          *)
(***************************************************************************)
isInteraction(intr, p1, p2) == {p1, p2} \in intr.range

\* Faulty variant: the last matching interaction instead of the first.
getInteractionLast(ints, p1, p2) ==
  LET hits == { i \in 1..Len(ints) : {p1, p2} \in ints[i].range }
  IN IF hits = {} THEN 0 ELSE CHOOSE i \in hits : \A j \in hits : i >= j

getInteraction(ints, p1, p2) ==
  LET hits == { i \in 1..Len(ints) : isInteraction(ints[i], p1, p2) }
  IN IF hits = {} THEN 0 ELSE CHOOSE i \in hits : \A j \in hits : i <= j

\* Faulty variant: the interaction range without the spheres' radii.
maxIntDistLengthOnly(intr) == intr.length

maxIntDist(intr) == intr.length + 2 * intr.r

RECURSIVE getLongestInteraction(_)
getLongestInteraction(ints) ==
  IF ints = << >> THEN 0
  ELSE Max(maxIntDist(Head(ints)), getLongestInteraction(Tail(ints)))

(***************************************************************************)
(* ISingleCapture: the capture map is a set of unordered pairs.            *)
(***************************************************************************)
isCaptured(cm, p1, p2) == {p1, p2} \in cm
addToCaptureMap(cm, p1, p2) == cm \cup { {p1, p2} }
removeFromCaptureMap(cm, p1, p2) == cm \ { {p1, p2} }

(***************************************************************************)
(* What the root finders of the Liouvillean can answer for one pair:       *)
(* found is the boolean the second query returns (the off-centre sphere    *)
(* collision test for a captured pair, SphereSphereInRoot for a free one), *)
(* dt is colldat.dt afterwards.                                            *)
(***************************************************************************)
Oracles == { [found |-> TRUE, dt |-> 1], [found |-> FALSE, dt |-> 1],
             [found |-> FALSE, dt |-> HUGE_VAL] }

IntEvent(p1, p2, dt, type) == [p1 |-> p1, p2 |-> p2, type |-> type, dt |-> dt]

\* Faulty variant: getEvent with the test of the capture map inverted.
DumbbellsGetEventInverted(cm, p1, p2, o) ==
  IF ~({p1, p2} \in cm)
  THEN IF o.found THEN [p1 |-> p1, p2 |-> p2, type |-> "CORE", dt |-> o.dt]
       ELSE [p1 |-> p1, p2 |-> p2, type |-> "WELL_OUT", dt |-> o.dt]
  ELSE IF o.found THEN [p1 |-> p1, p2 |-> p2, type |-> "WELL_IN", dt |-> o.dt]
       ELSE [p1 |-> p1, p2 |-> p2, type |-> "NONE", dt |-> HUGE_VAL]

(***************************************************************************)
(* IDumbbells::getEvent                                                    *)
(***************************************************************************)
DumbbellsGetEvent(cm, p1, p2, o) ==
  IF isCaptured(cm, p1, p2)
  THEN IF o.found THEN IntEvent(p1, p2, o.dt, "CORE")
       ELSE IntEvent(p1, p2, o.dt, "WELL_OUT")
  ELSE IF o.found THEN IntEvent(p1, p2, o.dt, "WELL_IN")
       ELSE IntEvent(p1, p2, HUGE_VAL, "NONE")

(***************************************************************************)
(* The scheduler.  An event is stamped with the collision counters of its  *)
(* two particles when it is pushed and is valid while both still match.    *)
(* Events of type NONE and events at the infinite time are not pushed:     *)
(* they can never be the next event.                                       *)
(***************************************************************************)
Stamp(e, cc) == [p1 |-> e.p1, p2 |-> e.p2, type |-> e.type, dt |-> e.dt,
                 c1 |-> cc[e.p1], c2 |-> cc[e.p2]]

Valid(e, cc) == e.c1 = cc[e.p1] /\ e.c2 = cc[e.p2]

addEvents(cm, cc, P, p, orc) ==
  { Stamp(e, cc) :
      e \in { ev \in { DumbbellsGetEvent(cm, p, q, orc[{p, q}]) : q \in P \ {p} } :
                ev.type # "NONE" /\ ev.dt < HUGE_VAL } }

\* Scheduler::fullUpdate(p1, p2) on the event state es
fullUpdate(es, P, p1, p2, orc) ==
  LET cc == [p \in P |-> IF p \in {p1, p2} THEN es.collCount[p] + 1
                         ELSE es.collCount[p]]
  IN [es EXCEPT !.collCount = cc,
                !.queue = @ \cup addEvents(es.captureMap, cc, P, p1, orc)
                            \cup addEvents(es.captureMap, cc, P, p2, orc),
                !.updates = @ \o << p1, p2 >>]

\* Scheduler::initialise: zeroed counters and the events of every particle
schedulerQueue(cm, P, orc) ==
  UNION { addEvents(cm, [x \in P |-> 0], P, p, orc) : p \in P }

(***************************************************************************)
(* IDumbbells::runEvent on the event state es = [eventCount, captureMap,   *)
(* collCount, queue, freestreamAcc, updates, threw].  efault names the     *)
(* call inside the handler that throws, if any: the collision kernel, the  *)
(* scheduler update or an output plugin's eventUpdate.                     *)
(***************************************************************************)
EFaults == { "none", "kernel", "update", "plugin" }
Fail(es) == [es EXCEPT !.threw = TRUE]

\* Faulty variant: the WELL_OUT case leaves the scheduler update out.
DumbbellsRunEventNoUpdate(es, P, ev, efault, orc, plugins) ==
  CASE ev.type = "CORE" ->
         LET s1 == [es EXCEPT !.eventCount = @ + 1]
             s2 == fullUpdate(s1, P, ev.p1, ev.p2, orc)
         IN IF efault \in {"kernel", "update"} THEN Fail(s1)
            ELSE IF efault = "plugin" /\ plugins # << >> THEN Fail(s2)
            ELSE s2
    [] ev.type = "WELL_IN" ->
         LET s1 == [es EXCEPT !.captureMap = addToCaptureMap(@, ev.p1, ev.p2)]
             s2 == fullUpdate(s1, P, ev.p1, ev.p2, orc)
         IN IF efault = "update" THEN Fail(s1)
            ELSE [s2 EXCEPT !.freestreamAcc = @ + ev.dt]
    [] ev.type = "WELL_OUT" ->
         LET s1 == [es EXCEPT !.captureMap = removeFromCaptureMap(@, ev.p1, ev.p2)]
         IN IF efault = "update" THEN Fail(s1)
            ELSE [s1 EXCEPT !.freestreamAcc = @ + ev.dt]
    [] OTHER -> Fail(es)

\* Faulty variant: the CORE case also takes the pair out of the capture map.
DumbbellsRunEventCoreUncaptures(es, P, ev, efault, orc, plugins) ==
  CASE ev.type = "CORE" ->
         LET s1 == [es EXCEPT !.eventCount = @ + 1,
                              !.captureMap = removeFromCaptureMap(@, ev.p1, ev.p2)]
             s2 == fullUpdate(s1, P, ev.p1, ev.p2, orc)
         IN IF efault \in {"kernel", "update"} THEN Fail(s1)
            ELSE IF efault = "plugin" /\ plugins # << >> THEN Fail(s2)
            ELSE s2
    [] ev.type = "WELL_IN" ->
         LET s1 == [es EXCEPT !.captureMap = addToCaptureMap(@, ev.p1, ev.p2)]
             s2 == fullUpdate(s1, P, ev.p1, ev.p2, orc)
         IN IF efault = "update" THEN Fail(s1)
            ELSE [s2 EXCEPT !.freestreamAcc = @ + ev.dt]
    [] ev.type = "WELL_OUT" ->
         LET s1 == [es EXCEPT !.captureMap = removeFromCaptureMap(@, ev.p1, ev.p2)]
             s2 == fullUpdate(s1, P, ev.p1, ev.p2, orc)
         IN IF efault = "update" THEN Fail(s1)
            ELSE [s2 EXCEPT !.freestreamAcc = @ + ev.dt]
    [] OTHER -> Fail(es)

\* Faulty variant: the WELL_IN case is "smart" and asks the scheduler for no
\* update, so the copies of the event in the queue stay valid.
DumbbellsRunEventSmartWellIn(es, P, ev, efault, orc, plugins) ==
  CASE ev.type = "CORE" ->
         LET s1 == [es EXCEPT !.eventCount = @ + 1]
             s2 == fullUpdate(s1, P, ev.p1, ev.p2, orc)
         IN IF efault \in {"kernel", "update"} THEN Fail(s1)
            ELSE IF efault = "plugin" /\ plugins # << >> THEN Fail(s2)
            ELSE s2
    [] ev.type = "WELL_IN" ->
         LET s1 == [es EXCEPT !.captureMap = addToCaptureMap(@, ev.p1, ev.p2)]
         IN IF efault = "update" THEN Fail(s1)
            ELSE [s1 EXCEPT !.freestreamAcc = @ + ev.dt]
    [] ev.type = "WELL_OUT" ->
         LET s1 == [es EXCEPT !.captureMap = removeFromCaptureMap(@, ev.p1, ev.p2)]
             s2 == fullUpdate(s1, P, ev.p1, ev.p2, orc)
         IN IF efault = "update" THEN Fail(s1)
            ELSE [s2 EXCEPT !.freestreamAcc = @ + ev.dt]
    [] OTHER -> Fail(es)

DumbbellsRunEvent(es, P, ev, efault, orc, plugins) ==
  CASE ev.type = "CORE" ->
         LET s1 == [es EXCEPT !.eventCount = @ + 1]
             s2 == fullUpdate(s1, P, ev.p1, ev.p2, orc)
         IN IF efault = "kernel" THEN Fail(s1)
            ELSE IF efault = "update" THEN Fail(s1)
            ELSE IF efault = "plugin" /\ plugins # << >> THEN Fail(s2)
            ELSE s2
    [] ev.type = "WELL_IN" ->
         LET s1 == [es EXCEPT !.captureMap = addToCaptureMap(@, ev.p1, ev.p2)]
             s2 == fullUpdate(s1, P, ev.p1, ev.p2, orc)
         IN IF efault = "update" THEN Fail(s1)
            ELSE [s2 EXCEPT !.freestreamAcc = @ + ev.dt]
    [] ev.type = "WELL_OUT" ->
         LET s1 == [es EXCEPT !.captureMap = removeFromCaptureMap(@, ev.p1, ev.p2)]
             s2 == fullUpdate(s1, P, ev.p1, ev.p2, orc)
         IN IF efault = "update" THEN Fail(s1)
            ELSE [s2 EXCEPT !.freestreamAcc = @ + ev.dt]
    [] OTHER -> Fail(es)

(***************************************************************************)
(* The particles' delayed state.  pecTime[p] is the time that has been     *)
(* streamed since p was last brought up to date: streaming adds to it,     *)
(* updating a particle zeroes it.                                          *)
(***************************************************************************)
stream(pt, dt) == [p \in DOMAIN pt |-> pt[p] + dt]
updateAllParticles(pt) == [p \in DOMAIN pt |-> 0]

RECURSIVE Synchronise(_, _)
Synchronise(pt, ids) ==
  IF ids = << >> THEN pt
  ELSE Synchronise([pt EXCEPT ![Head(ids)] = 0], Tail(ids))

(***************************************************************************)
(* Simulation::initialise.  The statuses it assigns, in code order.        *)
(***************************************************************************)
\* Faulty variant: LOCAL_INIT and GLOBAL_INIT assigned the other way round.
PhaseOrderSwapped == << SPECIES_INIT, DYNAMICS_INIT, INTERACTION_INIT, GLOBAL_INIT,
                        LOCAL_INIT, SYSTEM_INIT, ENSEMBLE_INIT, SCHEDULER_INIT,
                        OUTPUTPLUGIN_INIT, INITIALISED >>

PhaseOrder == << SPECIES_INIT, DYNAMICS_INIT, INTERACTION_INIT, LOCAL_INIT,
                 GLOBAL_INIT, SYSTEM_INIT, ENSEMBLE_INIT, SCHEDULER_INIT,
                 OUTPUTPLUGIN_INIT, INITIALISED >>

\* The places where initialise() can throw, in code order; "ok" is the end.
StopOrder == << "guard", "species", "speciesCover", "speciesCount", "selfInt",
                "dynamics", "pairInt", "interaction", "pbcSize", "local",
                "global", "ticker", "system", "ensemble", "schedNull",
                "scheduler", "plugin", "ok" >>
Rank(pt) == CHOOSE i \in 1..Len(StopOrder) : StopOrder[i] = pt

\* Faulty variant: the pair check placed after status = INTERACTION_INIT.
PhasesDonePairLate(pt) ==
  CASE pt \in {"guard", "species", "speciesCover", "speciesCount"} -> 0
    [] pt \in {"selfInt", "dynamics"} -> 1
    [] pt \in {"interaction", "pbcSize"} -> 2
    [] pt \in {"local", "pairInt"} -> 3
    [] pt = "global" -> 4
    [] pt \in {"ticker", "system"} -> 5
    [] pt = "ensemble" -> 6
    [] pt \in {"schedNull", "scheduler"} -> 7
    [] pt = "plugin" -> 8
    [] OTHER -> 10

\* How many status assignments precede each place.
PhasesDone(pt) ==
  CASE pt \in {"guard", "species", "speciesCover", "speciesCount"} -> 0
    [] pt \in {"selfInt", "dynamics"} -> 1
    [] pt \in {"pairInt", "interaction", "pbcSize"} -> 2
    [] pt = "local" -> 3
    [] pt = "global" -> 4
    [] pt \in {"ticker", "system"} -> 5
    [] pt = "ensemble" -> 6
    [] pt \in {"schedNull", "scheduler"} -> 7
    [] pt = "plugin" -> 8
    [] OTHER -> Len(PhaseOrder)

\* A component's own initialise() that throws, chosen by the environment.
InitFaults == { "none", "interaction", "plugin" }

SpeciesCovered(P, sps) == \A p \in P : \E i \in 1..Len(sps) : p \in sps[i]
\* Faulty variant: particles counted once however many species hold them.
SpeciesTotalDistinct(sps) == Cardinality(UNION { sps[i] : i \in 1..Len(sps) })

SpeciesTotal(sps) == SeqSum([i \in 1..Len(sps) |-> Cardinality(sps[i])])

\* Faulty variant: a dimension of exactly twice the distance passes.
PBCTooSmallStrict(per, size, ints) ==
  per /\ \E i \in 1..Len(size) : size[i] < 2 * getLongestInteraction(ints)

PBCTooSmall(per, size, ints) ==
  per /\ \E i \in 1..Len(size) : size[i] <= 2 * getLongestInteraction(ints)

HasTicker(plugins) == \E i \in 1..Len(plugins) : plugins[i] = "Ticker"
HasName(seq, name) == \E i \in 1..Len(seq) : seq[i] = name

\* std::sort of the plugins by their own order: Misc sorts before Ticker.
SortPlugins(plugins) ==
  LET misc == SelectSeq(plugins, LAMBDA n : n = "Misc")
      rest == SelectSeq(plugins, LAMBDA n : n # "Misc")
  IN misc \o rest

\* Faulty variant: initialise() without the check of the particle pairs.
StopPointNoPairCheck(fault) ==
  IF status # START THEN "guard"
  ELSE IF fault = "species" /\ species # << >> THEN "species"
  ELSE IF ~SpeciesCovered(particles, species) THEN "speciesCover"
  ELSE IF SpeciesTotal(species) # Cardinality(particles) THEN "speciesCount"
  ELSE IF \E p \in particles : getInteraction(interactions, p, p) = 0 THEN "selfInt"
  ELSE IF fault = "dynamics" THEN "dynamics"
  ELSE IF fault = "interaction" /\ interactions # << >> THEN "interaction"
  ELSE IF PBCTooSmall(periodic, primaryCellSize, interactions) THEN "pbcSize"
  ELSE IF fault = "local" /\ locals # << >> THEN "local"
  ELSE IF fault = "global" /\ (periodic \/ globals # << >>) THEN "global"
  ELSE IF HasTicker(outputPlugins) /\ HasName(systems, "SystemTicker") THEN "ticker"
  ELSE IF fault = "system" /\ (HasTicker(outputPlugins) \/ systems # << >>)
       THEN "system"
  ELSE IF fault = "ensemble" THEN "ensemble"
  ELSE IF ~loaded THEN "schedNull"
  ELSE IF fault = "scheduler" /\ endEventCount # 0 THEN "scheduler"
  ELSE IF fault = "plugin" /\ outputPlugins # << >> THEN "plugin"
  ELSE "ok"

\* Faulty variant: initialise() without its status guard.
StopPointNoGuard(fault) ==
  IF fault = "species" /\ species # << >> THEN "species"
  ELSE IF ~SpeciesCovered(particles, species) THEN "speciesCover"
  ELSE IF SpeciesTotal(species) # Cardinality(particles) THEN "speciesCount"
  ELSE IF \E p \in particles : getInteraction(interactions, p, p) = 0 THEN "selfInt"
  ELSE IF fault = "dynamics" THEN "dynamics"
  ELSE IF \E p \in particles, q \in particles :
            getInteraction(interactions, p, q) = 0 THEN "pairInt"
  ELSE IF fault = "interaction" /\ interactions # << >> THEN "interaction"
  ELSE IF PBCTooSmall(periodic, primaryCellSize, interactions) THEN "pbcSize"
  ELSE IF fault = "local" /\ locals # << >> THEN "local"
  ELSE IF fault = "global" /\ (periodic \/ globals # << >>) THEN "global"
  ELSE IF HasTicker(outputPlugins) /\ HasName(systems, "SystemTicker") THEN "ticker"
  ELSE IF fault = "system" /\ (HasTicker(outputPlugins) \/ systems # << >>)
       THEN "system"
  ELSE IF fault = "ensemble" THEN "ensemble"
  ELSE IF ~loaded THEN "schedNull"
  ELSE IF fault = "scheduler" /\ endEventCount # 0 THEN "scheduler"
  ELSE IF fault = "plugin" /\ outputPlugins # << >> THEN "plugin"
  ELSE "ok"

\* The first place where initialise() throws in the current state.
StopPoint(fault) ==
  IF status # START THEN "guard"
  ELSE IF fault = "species" /\ species # << >> THEN "species"
  ELSE IF ~SpeciesCovered(particles, species) THEN "speciesCover"
  ELSE IF SpeciesTotal(species) # Cardinality(particles) THEN "speciesCount"
  ELSE IF \E p \in particles : getInteraction(interactions, p, p) = 0 THEN "selfInt"
  ELSE IF fault = "dynamics" THEN "dynamics"
  ELSE IF \E p \in particles, q \in particles :
            getInteraction(interactions, p, q) = 0 THEN "pairInt"
  ELSE IF fault = "interaction" /\ interactions # << >> THEN "interaction"
  ELSE IF PBCTooSmall(periodic, primaryCellSize, interactions) THEN "pbcSize"
  ELSE IF fault = "local" /\ locals # << >> THEN "local"
  ELSE IF fault = "global" /\ (periodic \/ globals # << >>) THEN "global"
  ELSE IF HasTicker(outputPlugins) /\ HasName(systems, "SystemTicker") THEN "ticker"
  ELSE IF fault = "system" /\ (HasTicker(outputPlugins) \/ systems # << >>)
       THEN "system"
  ELSE IF fault = "ensemble" THEN "ensemble"
  ELSE IF ~loaded THEN "schedNull"
  ELSE IF fault = "scheduler" /\ endEventCount # 0 THEN "scheduler"
  ELSE IF fault = "plugin" /\ outputPlugins # << >> THEN "plugin"
  ELSE "ok"

\* The globals list once initialise() has got as far as the place of rank
\* rank: under periodic boundaries the sentinel is pushed on the list just
\* before the loop that initialises the globals.
GlobalsAtInit(per, globs, rank) ==
  IF per /\ rank >= Rank("global") THEN Append(globs, "PBCSentinel") ELSE globs

\* Faulty variant: the globals' loop placed before the locals' loop.
InitOrderGlobalsFirst(locs, globs, rank) ==
  (IF rank > Rank("global")
   THEN [i \in 1..Len(globs) |-> [kind |-> "Global", name |-> globs[i], ID |-> i - 1]]
   ELSE << >>)
  \o (IF rank > Rank("local")
      THEN [i \in 1..Len(locs) |-> [kind |-> "Local", name |-> locs[i], ID |-> i - 1]]
      ELSE << >>)

\* The initialise(ID) calls made on locals and globals, in the order made:
\* the loop over the locals, then the loop over the globals, each counting
\* its IDs from 0.  A loop whose component throws is left out.
InitOrder(locs, globs, rank) ==
  (IF rank > Rank("local")
   THEN [i \in 1..Len(locs) |-> [kind |-> "Local", name |-> locs[i], ID |-> i - 1]]
   ELSE << >>)
  \o (IF rank > Rank("global")
      THEN [i \in 1..Len(globs) |-> [kind |-> "Global", name |-> globs[i], ID |-> i - 1]]
      ELSE << >>)

\* fault: the component initialise() that throws; cap: what initCaptureMap
\* finds captured; orc: the root finders' answers at Scheduler::initialise.
\* Without a loaded configuration dynamics is a null pointer, and the call
\* ends the process when it gets as far as dynamics->initialise().
Initialise(fault, cap, orc) ==
  \E pt \in { StopPoint(fault) } :
  LET done == PhasesDone(pt)
      rank == Rank(pt)
      schedRuns == rank > Rank("scheduler") /\ endEventCount # 0
      cm == IF rank > Rank("interaction") THEN cap ELSE captureMap
  IN /\ loaded \/ rank < Rank("dynamics")
     /\ (periodic /\ rank >= Rank("global")) => Len(globals) < MaxGlobals
     /\ status' = IF done = 0 THEN status ELSE PhaseOrder[done]
     /\ phaseLog' = SubSeq(PhaseOrder, 1, done)
     /\ initOrder' = InitOrder(locals, GlobalsAtInit(periodic, globals, rank), rank)
     /\ captureMap' = cm
     /\ globals' = GlobalsAtInit(periodic, globals, rank)
     /\ systems' = IF HasTicker(outputPlugins) /\ rank > Rank("ticker")
                   THEN Append(systems, "SystemTicker") ELSE systems
     /\ schedInitialised' = (schedInitialised \/ schedRuns)
     /\ collCount' = IF schedRuns THEN [p \in particles |-> 0] ELSE collCount
     /\ queue' = IF schedRuns THEN schedulerQueue(cm, particles, orc) ELSE queue
     /\ outputPlugins' = IF rank >= Rank("plugin")
                         THEN SortPlugins(outputPlugins) ELSE outputPlugins
     /\ call' = IF pt = "ok" THEN Done("initialise") ELSE Threw("initialise")
     /\ UNCHANGED << loaded, particles, species, interactions, locals, periodic,
                     primaryCellSize, systemTime, eventCount, endEventCount,
                     freestreamAcc, pecTime, replicas, extVars, cellVars >>

\* Faulty variant: reset() without its status guard.
ResetNoGuard ==
  /\ status' = START
  /\ outputPlugins' = << >>
  /\ pecTime' = updateAllParticles(pecTime)
  /\ systemTime' = 0
  /\ eventCount' = 0
  /\ lastRunMFT' = 0
  /\ lastReset' = [happened |-> TRUE, outputPlugins |-> outputPlugins]
  /\ call' = Done("reset")
  /\ UNCHANGED << loaded, particles, species, interactions, locals, globals,
                  systems, periodic, primaryCellSize, endEventCount,
                  freestreamAcc, schedVars, captureMap, phaseLog, initOrder, replicas,
                  exchanges, units, properties, topology, xmlFile,
                  cellOverlap, liouvillean, ptrScheduler, ipCompression, cellVars >>

\* Faulty variant: reset() that zeroes the clock without synchronising.
ResetNoSync ==
  IF status # INITIALISED
  THEN /\ call' = Threw("reset")
       /\ UNCHANGED << simVars, schedVars, captureMap, phaseLog, initOrder, replicas, extVars, cellVars >>
  ELSE /\ status' = START
       /\ outputPlugins' = << >>
       /\ systemTime' = 0
       /\ eventCount' = 0
       /\ lastRunMFT' = 0
       /\ lastReset' = [happened |-> TRUE, outputPlugins |-> outputPlugins]
       /\ call' = Done("reset")
       /\ UNCHANGED << loaded, particles, species, interactions, locals, globals,
                       systems, periodic, primaryCellSize, endEventCount,
                       freestreamAcc, pecTime, schedVars, captureMap, phaseLog,
                       initOrder, replicas, exchanges, units, properties, topology,
                       xmlFile, cellOverlap, liouvillean, ptrScheduler,
                       ipCompression, cellVars >>

(***************************************************************************)
(* Simulation::reset                                                       *)
(***************************************************************************)
Reset ==
  IF status # INITIALISED
  THEN /\ call' = Threw("reset")
       /\ UNCHANGED << simVars, schedVars, captureMap, phaseLog, initOrder, replicas, extVars, cellVars >>
  ELSE /\ status' = START
       /\ outputPlugins' = << >>
       /\ pecTime' = updateAllParticles(pecTime)
       /\ systemTime' = 0
       /\ eventCount' = 0
       /\ lastRunMFT' = 0
       /\ lastReset' = [happened |-> TRUE, outputPlugins |-> outputPlugins]
       /\ call' = Done("reset")
       /\ UNCHANGED << loaded, particles, species, interactions, locals, globals,
                       systems, periodic, primaryCellSize, endEventCount,
                       freestreamAcc, schedVars, captureMap, phaseLog, initOrder,
                       replicas, exchanges, units, properties, topology, xmlFile,
                       cellOverlap, liouvillean, ptrScheduler, ipCompression,
                       cellVars >>

\* Faulty variant: addSpecies() that still appends when status is INITIALISED.
AddSpeciesLate(sp) ==
  /\ Len(species) < MaxSpecies
  /\ species' = Append(species, sp)
  /\ call' = Done("addSpecies")
  /\ UNCHANGED << status, loaded, particles, interactions, locals, globals,
                  systems, outputPlugins, periodic, primaryCellSize,
                  systemTime, eventCount, endEventCount, freestreamAcc, pecTime,
                  schedVars, captureMap, phaseLog, initOrder, replicas, extVars, cellVars >>

(***************************************************************************)
(* Simulation::addSpecies                                                  *)
(***************************************************************************)
AddSpecies(sp) ==
  IF status >= INITIALISED
  THEN /\ call' = Threw("addSpecies")
       /\ UNCHANGED << simVars, schedVars, captureMap, phaseLog, initOrder, replicas, extVars, cellVars >>
  ELSE /\ Len(species) < MaxSpecies
       /\ species' = Append(species, sp)
       /\ call' = Done("addSpecies")
       /\ UNCHANGED << status, loaded, particles, interactions, locals, globals,
                       systems, outputPlugins, periodic, primaryCellSize,
                       systemTime, eventCount, endEventCount, freestreamAcc, pecTime,
                       schedVars, captureMap, phaseLog, initOrder, replicas, extVars, cellVars >>

(***************************************************************************)
(* Simulation::addOutputPlugin                                             *)
(***************************************************************************)
AddOutputPlugin(name) ==
  IF status >= INITIALISED
  THEN /\ call' = Threw("addOutputPlugin")
       /\ UNCHANGED << simVars, schedVars, captureMap, phaseLog, initOrder, replicas, extVars, cellVars >>
  ELSE /\ Len(outputPlugins) < MaxPlugins
       /\ outputPlugins' = Append(outputPlugins, name)
       /\ call' = Done("addOutputPlugin")
       /\ UNCHANGED << status, loaded, particles, species, interactions, locals,
                       globals, systems, periodic, primaryCellSize, systemTime,
                       eventCount, endEventCount, freestreamAcc, pecTime, schedVars,
                       captureMap, phaseLog, initOrder, replicas, extVars, cellVars >>

(***************************************************************************)
(* checkNodeNameAttribute: the siblings' names are scanned in order and    *)
(* the first one met twice throws.  TRUE when the check passes.            *)
(***************************************************************************)
RECURSIVE ScanNames(_, _)
ScanNames(names, seen) ==
  IF names = << >> THEN TRUE
  ELSE IF Head(names) \in seen THEN FALSE
  ELSE ScanNames(Tail(names), seen \cup { Head(names) })

\* Faulty variant: only neighbouring siblings are compared.
checkNodeNameAttributeNeighbours(names) ==
  \A k \in 1..(Len(names) - 1) : names[k] # names[k + 1]

checkNodeNameAttribute(names) == ScanNames(names, {})

\* GCells and GCellsShearing are the neighbour-list globals; a global is
\* written by its name.  A neighbour list is constructed with overlapping
\* cells.
NeighbourLists == { "Cells", "ShearingCells" }
NBGlobals(globs) == { i \in 1..Len(globs) : globs[i] \in NeighbourLists }
Overlaps(co, globs) ==
  [i \in NBGlobals(globs) |-> IF i \in DOMAIN co THEN co[i] ELSE TRUE]

\* What a document holds when it does not say otherwise: names that differ
\* (the elements' positions), no structures, no systems, no lastMFT
\* attribute, properties of 0, a neighbour-list scheduler.
DocDefaults(doc) ==
  [ speciesNames |-> [k \in 1..Len(doc.species) |-> k],
    interactionNames |-> [k \in 1..Len(doc.interactions) |-> k],
    structures |-> << >>,
    systems |-> << >>,
    hasMFT |-> FALSE,
    lastMFT |-> 0,
    properties |-> [L |-> 0, T |-> 0],
    scheduler |-> "NeighbourList" ]
Complete(doc) == doc @@ DocDefaults(doc)

\* The kinds of named elements in the order loadXMLfile reads them, and the
\* first kind whose name check throws ("none" when all pass).
LoadOrder == << "Species", "Structure", "Interaction", "Local", "Global", "System", "none" >>
LoadRank(pt) == CHOOSE k \in 1..Len(LoadOrder) : LoadOrder[k] = pt
LoadStop(d) ==
  IF ~checkNodeNameAttribute(d.speciesNames) THEN "Species"
  ELSE IF ~checkNodeNameAttribute(d.structures) THEN "Structure"
  ELSE IF ~checkNodeNameAttribute(d.interactionNames) THEN "Interaction"
  ELSE IF ~checkNodeNameAttribute(d.locals) THEN "Local"
  ELSE IF ~checkNodeNameAttribute(d.globals) THEN "Global"
  ELSE IF ~checkNodeNameAttribute(d.systems) THEN "System"
  ELSE "none"

(***************************************************************************)
(* Simulation::loadXMLfile.  fileOK is false when the file is missing or   *)
(* its version is not the current one.  A name check that throws leaves    *)
(* what was read before it: the elements of the earlier kinds, the cell    *)
(* size, and lastMFT and the properties not yet converted.                 *)
(***************************************************************************)
LoadXMLfile(doc, fileOK) ==
  IF status # START \/ ~fileOK
  THEN /\ call' = Threw("loadXMLfile")
       /\ UNCHANGED << simVars, schedVars, captureMap, phaseLog, initOrder, replicas, extVars, cellVars >>
  ELSE LET d == Complete(doc)
           pt == LoadStop(d)
           past(kind) == LoadRank(pt) > LoadRank(kind)
           read == IF d.hasMFT THEN d.lastMFT ELSE lastRunMFT
       IN /\ Len(species) + Len(d.species) <= MaxSpecies
          /\ lastRunMFT' = IF pt = "none" THEN read * units.unitTime ELSE read
          /\ properties' = IF pt = "none"
                           THEN [L |-> d.properties.L * units.unitLength,
                                 T |-> d.properties.T * units.unitTime]
                           ELSE d.properties
          /\ primaryCellSize' = [k \in 1..Len(d.size) |-> d.size[k] \div units.unitLength]
          /\ species' = IF past("Species") THEN species \o d.species ELSE species
          /\ periodic' = IF past("Species") THEN d.periodic ELSE periodic
          /\ particles' = IF past("Species") THEN d.particles ELSE particles
          /\ collCount' = IF past("Species") THEN [p \in d.particles |-> 0] ELSE collCount
          /\ pecTime' = IF past("Species") THEN [p \in d.particles |-> 0] ELSE pecTime
          /\ topology' = IF past("Structure") THEN topology \o d.structures ELSE topology
          /\ interactions' = IF past("Interaction") THEN interactions \o d.interactions
                             ELSE interactions
          /\ locals' = IF past("Local") THEN locals \o d.locals ELSE locals
          /\ globals' = IF past("Global") THEN globals \o d.globals ELSE globals
          /\ cellOverlap' = IF past("Global")
                            THEN Overlaps(cellOverlap, globals \o d.globals)
                            ELSE cellOverlap
          /\ ptrScheduler' = IF pt = "none" THEN d.scheduler ELSE ptrScheduler
          /\ systems' = IF past("System") THEN systems \o d.systems ELSE systems
          /\ loaded' = IF pt = "none" THEN TRUE ELSE loaded
          /\ call' = IF pt = "none" THEN Done("loadXMLfile") ELSE Threw("loadXMLfile")
          /\ UNCHANGED << status, outputPlugins, systemTime, eventCount,
                          endEventCount, freestreamAcc, schedInitialised, queue,
                          captureMap, phaseLog, initOrder, replicas, exchanges, units,
                          xmlFile, liouvillean, ipCompression, lastReset, cellVars >>

\* Faulty variant: simShutdown() that leaves room for one more event.
SimShutdownLate ==
  /\ endEventCount' = eventCount + 1
  /\ call' = Done("simShutdown")
  /\ UNCHANGED << status, loaded, particles, species, interactions, locals, globals,
                  systems, outputPlugins, periodic, primaryCellSize, systemTime,
                  eventCount, freestreamAcc, pecTime, schedVars, captureMap, phaseLog, initOrder, replicas, extVars,
                  cellVars >>

(***************************************************************************)
(* Simulation::simShutdown                                                 *)
(***************************************************************************)
SimShutdown ==
  /\ endEventCount' = eventCount
  /\ call' = Done("simShutdown")
  /\ UNCHANGED << status, loaded, particles, species, interactions, locals, globals,
                  systems, outputPlugins, periodic, primaryCellSize, systemTime,
                  eventCount, freestreamAcc, pecTime, schedVars, captureMap, phaseLog, initOrder, replicas, extVars,
                  cellVars >>

(***************************************************************************)
(* Simulation::replexerSwap, seen from this simulation: it takes over the  *)
(* partner's clock and event count.  The partner is another Simulation     *)
(* object; partner is its state when the exchange is made.                 *)
(***************************************************************************)
Partners == { [systemTime |-> 0, eventCount |-> 0] }

ReplexerSwap(partner) ==
  /\ loaded
  /\ pecTime' = updateAllParticles(pecTime)
  /\ systemTime' = partner.systemTime
  /\ eventCount' = partner.eventCount
  /\ call' = Done("replexerSwap")
  /\ UNCHANGED << status, loaded, particles, species, interactions, locals, globals,
                  systems, outputPlugins, periodic, primaryCellSize, endEventCount,
                  freestreamAcc, schedVars, captureMap, phaseLog, initOrder, replicas, extVars, cellVars >>

(***************************************************************************)
(* Simulation::outputData                                                  *)
(***************************************************************************)
OutputData ==
  /\ call' = IF status < INITIALISED THEN Threw("outputData") ELSE Done("outputData")
  /\ UNCHANGED << simVars, schedVars, captureMap, phaseLog, initOrder, replicas, extVars, cellVars >>

(***************************************************************************)
(* Simulation::runSimulationStep, with Scheduler::runNextEvent inside.     *)
(* ev is the event the scheduler finds to be next: a valid queued event,   *)
(* an event of a type the interaction has no case for, or NoEvent when     *)
(* the queue holds no valid event (runNextEvent then throws).  Stale       *)
(* events are dropped on the way; the clock is streamed to the event       *)
(* before its handler runs.                                                *)
(***************************************************************************)
UnknownEvents ==
  { Stamp(IntEvent(p, q, 1, "BOUNCE"), collCount) :
      << p, q >> \in { pq \in particles \X particles : pq[1] < pq[2] } }

NextEvents ==
  LET live == { e \in queue : Valid(e, collCount) }
  IN IF live = {} THEN {NoEvent} \cup UnknownEvents ELSE live \cup UnknownEvents

\* Faulty variant: runSimulationStep() that looks at the event budget first
\* and runs no event once eventCount has reached endEventCount.
RunSimulationStepChecksFirst(ev, efault, orc) ==
  IF status < INITIALISED
  THEN /\ call' = Threw("runSimulationStep")
       /\ UNCHANGED << simVars, schedVars, captureMap, phaseLog, initOrder, replicas, extVars, cellVars >>
  ELSE IF eventCount >= endEventCount
  THEN /\ call' = MkCall("runSimulationStep", FALSE, FALSE, FALSE, NoEvent, << >>)
       /\ UNCHANGED << simVars, schedVars, captureMap, phaseLog, initOrder, replicas, extVars, cellVars >>
  ELSE LET live == { e \in queue : Valid(e, collCount) }
           es0 == [eventCount |-> eventCount, captureMap |-> captureMap,
                   collCount |-> collCount, queue |-> live,
                   freestreamAcc |-> freestreamAcc, updates |-> << >>,
                   threw |-> FALSE]
       IN /\ ev \in NextEvents
          /\ \E es1 \in { IF ev = NoEvent THEN Fail(es0)
                          ELSE DumbbellsRunEvent(es0, particles, ev, efault, orc,
                                                 outputPlugins) } :
               /\ eventCount' = es1.eventCount
               /\ captureMap' = es1.captureMap
               /\ collCount' = es1.collCount
               /\ queue' = es1.queue
               /\ freestreamAcc' = es1.freestreamAcc
               /\ pecTime' = Synchronise(stream(pecTime, ev.dt), es1.updates)
               /\ call' = MkCall("runSimulationStep", es1.threw,
                                 ~es1.threw /\ es1.eventCount < endEventCount,
                                 TRUE, ev, es1.updates)
          /\ systemTime' = systemTime + ev.dt
          /\ UNCHANGED << status, loaded, particles, species, interactions, locals,
                          globals, systems, outputPlugins, periodic,
                          primaryCellSize, endEventCount, schedInitialised,
                          phaseLog, initOrder, replicas, extVars, cellVars >>

\* Faulty variant: runSimulationStep() that compares with <=, so a step that
\* ends with eventCount equal to endEventCount still asks for more.
RunSimulationStepInclusive(ev, efault, orc) ==
  IF status < INITIALISED
  THEN /\ call' = Threw("runSimulationStep")
       /\ UNCHANGED << simVars, schedVars, captureMap, phaseLog, initOrder, replicas, extVars, cellVars >>
  ELSE LET live == { e \in queue : Valid(e, collCount) }
           es0 == [eventCount |-> eventCount, captureMap |-> captureMap,
                   collCount |-> collCount, queue |-> live,
                   freestreamAcc |-> freestreamAcc, updates |-> << >>,
                   threw |-> FALSE]
       IN /\ ev \in NextEvents
          /\ \E es1 \in { IF ev = NoEvent THEN Fail(es0)
                          ELSE DumbbellsRunEvent(es0, particles, ev, efault, orc,
                                                 outputPlugins) } :
               /\ eventCount' = es1.eventCount
               /\ captureMap' = es1.captureMap
               /\ collCount' = es1.collCount
               /\ queue' = es1.queue
               /\ freestreamAcc' = es1.freestreamAcc
               /\ pecTime' = Synchronise(stream(pecTime, ev.dt), es1.updates)
               /\ call' = MkCall("runSimulationStep", es1.threw,
                                 ~es1.threw /\ es1.eventCount <= endEventCount,
                                 TRUE, ev, es1.updates)
          /\ systemTime' = systemTime + ev.dt
          /\ UNCHANGED << status, loaded, particles, species, interactions, locals,
                          globals, systems, outputPlugins, periodic,
                          primaryCellSize, endEventCount, schedInitialised,
                          phaseLog, initOrder, replicas, extVars, cellVars >>

RunSimulationStep(ev, efault, orc) ==
  IF status < INITIALISED
  THEN /\ call' = Threw("runSimulationStep")
       /\ UNCHANGED << simVars, schedVars, captureMap, phaseLog, initOrder, replicas, extVars, cellVars >>
  ELSE LET live == { e \in queue : Valid(e, collCount) }
           es0 == [eventCount |-> eventCount, captureMap |-> captureMap,
                   collCount |-> collCount, queue |-> live,
                   freestreamAcc |-> freestreamAcc, updates |-> << >>,
                   threw |-> FALSE]
       IN /\ ev \in NextEvents
          /\ \E es1 \in { IF ev = NoEvent THEN Fail(es0)
                          ELSE DumbbellsRunEvent(es0, particles, ev, efault, orc,
                                                 outputPlugins) } :
               /\ eventCount' = es1.eventCount
               /\ captureMap' = es1.captureMap
               /\ collCount' = es1.collCount
               /\ queue' = es1.queue
               /\ freestreamAcc' = es1.freestreamAcc
               /\ pecTime' = Synchronise(stream(pecTime, ev.dt), es1.updates)
               /\ call' = MkCall("runSimulationStep", es1.threw,
                                 ~es1.threw /\ es1.eventCount < endEventCount,
                                 TRUE, ev, es1.updates)
          /\ systemTime' = systemTime + ev.dt
          /\ UNCHANGED << status, loaded, particles, species, interactions, locals,
                          globals, systems, outputPlugins, periodic,
                          primaryCellSize, endEventCount, schedInitialised,
                          phaseLog, initOrder, replicas, extVars, cellVars >>

(***************************************************************************)
(* CGCells: the cells and the particles of the cell-list model.            *)
(***************************************************************************)
CellIDs == {0, 1}
CellParticles == {0, 1, 2}

\* No replica exchange is set up.
ReplicasIdle == replicas = << >>

\* The state a constructed Simulation has beside the containers: unit
\* scales of 1, no mean free time, nothing written, Newtonian dynamics.
NoFile == [written |-> FALSE]
NoCompression == [growthRate |-> 0, oldLio |-> "null"]
NoReset == [happened |-> FALSE, outputPlugins |-> << >>]
ExtrasFresh ==
  /\ exchanges = << >>
  /\ units = [unitLength |-> 1, unitTime |-> 1]
  /\ lastRunMFT = 0
  /\ properties = [L |-> 0, T |-> 0]
  /\ topology = << >>
  /\ cellOverlap = [g \in {} |-> TRUE]
  /\ liouvillean = "Newtonian"
  /\ ptrScheduler = "null"
  /\ ipCompression = NoCompression
  /\ lastReset = NoReset
ExtrasIdle == ExtrasFresh /\ xmlFile = NoFile

CellsIdle ==
  /\ debugBuild = FALSE
  /\ cells = [c \in CellIDs |-> -1]
  /\ partCellData = [i \in CellParticles |-> [prev |-> -1, next |-> -1, cell |-> -1]]
  /\ linked = {}

(***************************************************************************)
(* The simulation container driven through its public operations.          *)
(***************************************************************************)
Init == SimInit /\ CellsIdle /\ ReplicasIdle /\ ExtrasIdle

\* The root finders' answers explored for one call: one answer for every
\* pair it asks about.
Orcs == { [pr \in NonSelfPairs(particles) |-> o] : o \in Oracles }
OrcFound == [pr \in NonSelfPairs(particles) |-> [found |-> TRUE, dt |-> 1]]

\* The inputs of initialise() that can make a difference in this state.
InitInputs ==
  { in \in [fault : InitFaults, cap : SUBSET NonSelfPairs(particles), orc : Orcs] :
      \E pt \in { StopPoint(in.fault) } :
         /\ in.fault # "none" => pt = in.fault
         /\ Rank(pt) <= Rank("interaction") => in.cap = {}
         /\ (Rank(pt) <= Rank("scheduler") \/ endEventCount = 0)
              => in.orc = OrcFound }

\* The inputs of runSimulationStep() that can make a difference.
StepInputs ==
  IF status < INITIALISED
  THEN { [ev |-> NoEvent, efault |-> "none", orc |-> OrcFound] }
  ELSE { in \in [ev : NextEvents, efault : EFaults, orc : Orcs] :
           /\ in.ev.type \in {"NOEVENT", "BOUNCE"}
                => in.efault = "none" /\ in.orc = OrcFound
           /\ in.ev.type \in {"WELL_IN", "WELL_OUT"}
                => in.efault \in {"none", "update"}
           /\ in.efault = "plugin" => outputPlugins # << >>
           /\ in.efault \in {"kernel", "update"} => in.orc = OrcFound }

Next ==
  \/ \E doc \in Docs, fileOK \in BOOLEAN :
       /\ loaded => status # START \/ ~fileOK
       /\ LoadXMLfile(doc, fileOK)
  \/ \E sp \in SpeciesArgs : AddSpecies(sp)
  \/ \E name \in PluginNames : AddOutputPlugin(name)
  \/ \E in \in InitInputs : Initialise(in.fault, in.cap, in.orc)
  \/ \E in \in StepInputs :
       /\ status < INITIALISED
            \/ /\ systemTime < MaxTime /\ freestreamAcc < MaxTime
               /\ \A p \in particles : collCount[p] < MaxCounter
       /\ RunSimulationStep(in.ev, in.efault, in.orc)
  \/ SimShutdown
  \/ \E partner \in Partners : ReplexerSwap(partner)
  \/ Reset
  \/ OutputData

Spec == Init /\ [][Next]_vars

(***************************************************************************)
(* IDumbbells::getEvent and IDumbbells::captureTest called as queries.     *)
(* dist2 is the squared separation of the pair after applyBC.              *)
(***************************************************************************)
Dist2s == 0..3

captureTest(intr, dist2) == dist2 <= intr.length * intr.length + 4 * intr.r * intr.r

GetEvent(p1, p2, o) ==
  /\ p1 \in particles /\ p2 \in particles /\ p1 # p2
  /\ call' = MkCall("getEvent", FALSE, FALSE, FALSE,
                    Stamp(DumbbellsGetEvent(captureMap, p1, p2, o), collCount),
                    << >>)
  /\ UNCHANGED << simVars, schedVars, captureMap, phaseLog, initOrder, replicas, extVars, cellVars >>

CaptureTest(p1, p2, dist2) ==
  /\ p1 \in particles /\ p2 \in particles /\ p1 # p2
  /\ getInteraction(interactions, p1, p2) # 0
  /\ call' = MkCall("captureTest", FALSE,
                    captureTest(interactions[getInteraction(interactions, p1, p2)],
                                dist2),
                    FALSE, NoEvent, << >>)
  /\ UNCHANGED << simVars, schedVars, captureMap, phaseLog, initOrder, replicas, extVars, cellVars >>

(***************************************************************************)
(* The event loop of an initialised simulation of three particles: the     *)
(* state initialise() leaves after DocThree was loaded.                    *)
(***************************************************************************)
EventsInit ==
  /\ status = INITIALISED
  /\ loaded = TRUE
  /\ particles = DocThree.particles
  /\ species = DocThree.species
  /\ interactions = DocThree.interactions
  /\ locals = DocThree.locals
  /\ globals = DocThree.globals
  /\ systems = << >>
  /\ outputPlugins \in { << >>, << "Misc" >> }
  /\ periodic = DocThree.periodic
  /\ primaryCellSize = DocThree.size
  /\ systemTime = 0
  /\ eventCount = 0
  /\ endEventCount = DefaultEndEventCount
  /\ freestreamAcc = 0
  /\ schedInitialised = TRUE
  /\ collCount = [p \in DocThree.particles |-> 0]
  /\ pecTime = [p \in DocThree.particles |-> 0]
  /\ captureMap \in SUBSET NonSelfPairs(DocThree.particles)
  /\ queue = schedulerQueue(captureMap, DocThree.particles,
                            [pr \in NonSelfPairs(DocThree.particles) |->
                               [found |-> TRUE, dt |-> 1]])
  /\ call = Done("initialise")
  /\ phaseLog = PhaseOrder
  /\ initOrder = << >>
  /\ CellsIdle
  /\ ReplicasIdle /\ ExtrasIdle

EventsNext ==
  \/ \E in \in StepInputs :
       /\ systemTime < MaxEvents
       /\ RunSimulationStep(in.ev, in.efault, in.orc)
  \/ \E p1 \in particles, p2 \in particles, o \in Oracles :
       p1 < p2 /\ GetEvent(p1, p2, o)
  \/ \E p1 \in particles, p2 \in particles, dist2 \in Dist2s :
       p1 < p2 /\ CaptureTest(p1, p2, dist2)

SpecEvents == EventsInit /\ [][EventsNext]_vars

(***************************************************************************)
(* CGCells::addToCell and CGCells::removeFromCell.  Both builds are        *)
(* explored; removeFromCell clears the cell field only under DYNAMO_DEBUG. *)
(* What partCellData holds for a particle that was never added is not      *)
(* fixed by the code: junk is the value found there.                       *)
(***************************************************************************)
\* Faulty variant: addToCell that does not point the old head back at the new one.
addToCellNoBackLink(cs, pcd, ID, cellID) ==
  [cells |-> [cs EXCEPT ![cellID] = ID],
   partCellData |-> [pcd EXCEPT ![ID].next = cs[cellID], ![ID].prev = -1,
                                ![ID].cell = cellID]]

addToCell(cs, pcd, ID, cellID) ==
  LET head == cs[cellID]
      pcd1 == IF head # -1 THEN [pcd EXCEPT ![head].prev = ID] ELSE pcd
      pcd2 == [pcd1 EXCEPT ![ID].next = head]
      cs1 == [cs EXCEPT ![cellID] = ID]
      pcd3 == [pcd2 EXCEPT ![ID].prev = -1, ![ID].cell = cellID]
  IN [cells |-> cs1, partCellData |-> pcd3]

\* Faulty variant: removeFromCell that leaves the head of the cell alone.
removeFromCellKeepHead(cs, pcd, ID, debug) ==
  LET pcd1 == IF pcd[ID].prev # -1
              THEN [pcd EXCEPT ![pcd[ID].prev].next = pcd[ID].next]
              ELSE pcd
      pcd2 == IF pcd1[ID].next # -1
              THEN [pcd1 EXCEPT ![pcd1[ID].next].prev = pcd1[ID].prev]
              ELSE pcd1
      pcd3 == IF debug THEN [pcd2 EXCEPT ![ID].cell = -1] ELSE pcd2
  IN [cells |-> cs, partCellData |-> pcd3]

removeFromCell(cs, pcd, ID, debug) ==
  LET unlinkPrev ==
        IF pcd[ID].prev # -1
        THEN [cells |-> cs,
              partCellData |-> [pcd EXCEPT ![pcd[ID].prev].next = pcd[ID].next]]
        ELSE [cells |-> [cs EXCEPT ![pcd[ID].cell] = pcd[ID].next],
              partCellData |-> pcd]
      pcd1 == unlinkPrev.partCellData
      pcd2 == IF pcd1[ID].next # -1
              THEN [pcd1 EXCEPT ![pcd1[ID].next].prev = pcd1[ID].prev]
              ELSE pcd1
      pcd3 == IF debug THEN [pcd2 EXCEPT ![ID].cell = -1] ELSE pcd2
  IN [cells |-> unlinkPrev.cells, partCellData |-> pcd3]

AddToCell(ID, cellID) ==
  /\ ID \notin linked
  /\ \E r \in { addToCell(cells, partCellData, ID, cellID) } :
       /\ cells' = r.cells
       /\ partCellData' = r.partCellData
  /\ linked' = linked \cup {ID}
  /\ call' = Done("addToCell")
  /\ UNCHANGED << debugBuild, simVars, schedVars, captureMap, phaseLog, initOrder, replicas, extVars >>

RemoveFromCell(ID) ==
  /\ ID \in linked
  /\ \E r \in { removeFromCell(cells, partCellData, ID, debugBuild) } :
       /\ cells' = r.cells
       /\ partCellData' = r.partCellData
  /\ linked' = linked \ {ID}
  /\ call' = Done("removeFromCell")
  /\ UNCHANGED << debugBuild, simVars, schedVars, captureMap, phaseLog, initOrder, replicas, extVars >>

\* A cell move: removeFromCell(ID) and then addToCell(ID, cellID), as the
\* handler of a cell-crossing event makes them.
MoveCell(ID, cellID) ==
  /\ ID \in linked
  /\ \E r1 \in { removeFromCell(cells, partCellData, ID, debugBuild) } :
       \E r2 \in { addToCell(r1.cells, r1.partCellData, ID, cellID) } :
         /\ cells' = r2.cells
         /\ partCellData' = r2.partCellData
  /\ call' = Done("moveCell")
  /\ UNCHANGED << debugBuild, linked, simVars, schedVars, captureMap, phaseLog, initOrder, replicas, extVars >>

CellsInit ==
  /\ SimInit
  /\ debugBuild \in BOOLEAN
  /\ cells = [c \in CellIDs |-> -1]
  /\ \E junk \in {-1, 0} :
       partCellData = [i \in CellParticles |->
                         [prev |-> junk, next |-> junk, cell |-> junk]]
  /\ linked = {}
  /\ ReplicasIdle /\ ExtrasIdle

CellsNext ==
  \/ \E ID \in CellParticles, cellID \in CellIDs : AddToCell(ID, cellID)
  \/ \E ID \in CellParticles : RemoveFromCell(ID)
  \/ \E ID \in CellParticles, cellID \in CellIDs : MoveCell(ID, cellID)

SpecCells == CellsInit /\ [][CellsNext]_vars

(***************************************************************************)
(* Properties of the lifecycle, checked under Spec.                        *)
(***************************************************************************)

\* C1: a successful initialise() starts from START and assigns status the
\* ten phases SPECIES_INIT .. INITIALISED, each once, in exactly this order.
C1_InitialisePhaseOrder ==
  [][ (call'.op = "initialise" /\ ~call'.threw) =>
        /\ status = START
        /\ phaseLog' = << SPECIES_INIT, DYNAMICS_INIT, INTERACTION_INIT,
                          LOCAL_INIT, GLOBAL_INIT, SYSTEM_INIT, ENSEMBLE_INIT,
                          SCHEDULER_INIT, OUTPUTPLUGIN_INIT, INITIALISED >>
        /\ \A i \in 1..(Len(phaseLog') - 1) : phaseLog'[i] < phaseLog'[i + 1]
        /\ status' = INITIALISED ]_vars

C1_Witness ==
  /\ call.op = "initialise" /\ ~call.threw
  /\ status = INITIALISED
  /\ Len(phaseLog) = 10

\* C2 as stated: no public operation, reset included, moves status to an
\* earlier phase.
C2_StatusNeverDecreases == [][ status' >= status ]_vars

\* C2, amended: status moves to an earlier phase only in a successful
\* reset(), which takes it from INITIALISED to START; no other public
\* operation ever lowers it.
C2_StatusDecreasesOnlyByReset ==
  [][ status' < status =>
        /\ call'.op = "reset" /\ ~call'.threw
        /\ status = INITIALISED
        /\ status' = START ]_vars

C2_Witness ==
  /\ call.op = "reset" /\ ~call.threw
  /\ status = START
  /\ loaded

\* C3: at INITIALISED addSpecies and addOutputPlugin throw and leave both
\* lists as they were; at every earlier status each appends exactly one
\* element to its own list and leaves the other list alone.
C3_AddAfterInitialisedFails ==
  [][ /\ call'.op = "addSpecies" =>
           IF status = INITIALISED
           THEN call'.threw /\ species' = species /\ outputPlugins' = outputPlugins
           ELSE /\ ~call'.threw
                /\ Len(species') = Len(species) + 1
                /\ SubSeq(species', 1, Len(species)) = species
                /\ outputPlugins' = outputPlugins
      /\ call'.op = "addOutputPlugin" =>
           IF status = INITIALISED
           THEN call'.threw /\ species' = species /\ outputPlugins' = outputPlugins
           ELSE /\ ~call'.threw
                /\ Len(outputPlugins') = Len(outputPlugins) + 1
                /\ SubSeq(outputPlugins', 1, Len(outputPlugins)) = outputPlugins
                /\ species' = species ]_vars

C3_Witness ==
  /\ call.op = "addSpecies" /\ call.threw
  /\ status = INITIALISED
  /\ species # << >>

\* C4: initialise and loadXMLfile called when status is not START, reset
\* called when it is not INITIALISED, runSimulationStep and outputData
\* called when it is below INITIALISED all throw, leave every field of the
\* simulation, the scheduler and the capture map as they were, and do not
\* call the scheduler.
WrongPhase(op, st) ==
  \/ op \in {"initialise", "loadXMLfile"} /\ st # START
  \/ op = "reset" /\ st # INITIALISED
  \/ op \in {"runSimulationStep", "outputData"} /\ st < INITIALISED

C4_WrongPhaseThrowsUnchanged ==
  [][ WrongPhase(call'.op, status) =>
        /\ call'.threw
        /\ ~call'.sched
        /\ UNCHANGED << simVars, schedVars, captureMap >> ]_vars

C4_Witness ==
  /\ call.op = "initialise" /\ call.threw
  /\ status = INITIALISED

\* C5: simShutdown leaves endEventCount equal to eventCount, and the
\* runSimulationStep that follows it returns false whenever it returns,
\* whichever event it ran.
C5_ShutdownStopsNextStep ==
  [][ /\ call'.op = "simShutdown" =>
           endEventCount' = eventCount /\ eventCount' = eventCount
      /\ (call.op = "simShutdown" /\ call'.op = "runSimulationStep"
            /\ ~call'.threw) => call'.ret = FALSE ]_vars

C5_Witness ==
  /\ call.op = "runSimulationStep" /\ ~call.threw
  /\ call.ev.type = "CORE"
  /\ ~call.ret
  /\ eventCount = endEventCount + 1

(***************************************************************************)
(* Properties of the event loop, checked under SpecEvents.                 *)
(***************************************************************************)

\* C6 as stated: when the handler of an event throws inside
\* runSimulationStep, eventCount, the capture map and the collision
\* counters are what they were before the step.
C6_ThrowLeavesNoPartialState ==
  [][ (call'.op = "runSimulationStep" /\ call'.threw /\ status >= INITIALISED) =>
        /\ eventCount' = eventCount
        /\ captureMap' = captureMap
        /\ collCount' = collCount ]_vars

\* C7: a CORE, WELL_IN or WELL_OUT event that runEvent carries out asks for
\* exactly one full update, of its two particles; both collision counters
\* advance and no event queued before for either particle is valid
\* afterwards.  Any other event type throws with no update requested.
Involves(e, p) == e.p1 = p \/ e.p2 = p

C7_EventUpdatesBothParticles ==
  [][ (call'.op = "runSimulationStep" /\ status >= INITIALISED) =>
        IF call'.ev.type \in {"CORE", "WELL_IN", "WELL_OUT"}
        THEN ~call'.threw =>
               /\ call'.updates = << call'.ev.p1, call'.ev.p2 >>
               /\ collCount'[call'.ev.p1] > collCount[call'.ev.p1]
               /\ collCount'[call'.ev.p2] > collCount[call'.ev.p2]
               /\ \A e \in queue :
                    (Involves(e, call'.ev.p1) \/ Involves(e, call'.ev.p2))
                      => ~Valid(e, collCount')
        ELSE /\ call'.threw
             /\ call'.updates = << >>
             /\ collCount' = collCount ]_vars

C7_Witness ==
  /\ call.op = "runSimulationStep" /\ ~call.threw
  /\ call.ev.type = "WELL_OUT"
  /\ call.updates = << call.ev.p1, call.ev.p2 >>
  /\ \E e \in queue : Involves(e, call.ev.p1) /\ ~Valid(e, collCount)

\* C8: in an initialised simulation a WELL_IN event adds exactly its pair
\* to the capture map, a WELL_OUT event removes exactly its pair, and
\* nothing else (a CORE event, an unknown event, getEvent, captureTest)
\* changes the map.
EventPair(ev) == { ev.p1, ev.p2 }

C8_CaptureMapFrame ==
  [][ IF call'.op = "runSimulationStep" /\ call'.ev.type = "WELL_IN"
      THEN captureMap' = captureMap \cup { EventPair(call'.ev) }
      ELSE IF call'.op = "runSimulationStep" /\ call'.ev.type = "WELL_OUT"
      THEN captureMap' = captureMap \ { EventPair(call'.ev) }
      ELSE captureMap' = captureMap ]_vars

C8_Witness ==
  /\ call.op = "runSimulationStep" /\ ~call.threw
  /\ call.ev.type = "WELL_IN"
  /\ EventPair(call.ev) \in captureMap
  /\ Cardinality(captureMap) = 2

\* C9: getEvent answers CORE or WELL_OUT for a captured pair, WELL_IN or
\* NONE for a pair that is not captured, and NONE only with the infinite
\* time.
C9_GetEventDispatch ==
  call.op = "getEvent" =>
    /\ EventPair(call.ev) \in captureMap => call.ev.type \in {"CORE", "WELL_OUT"}
    /\ EventPair(call.ev) \notin captureMap => call.ev.type \in {"WELL_IN", "NONE"}
    /\ call.ev.type = "NONE" => call.ev.dt = HUGE_VAL

C9_Witness ==
  /\ call.op = "getEvent"
  /\ call.ev.type = "NONE" /\ call.ev.dt = HUGE_VAL
  /\ EventPair(call.ev) \notin captureMap
  /\ captureMap # {}

(***************************************************************************)
(* Properties of the cell lists, checked under SpecCells.                  *)
(***************************************************************************)
RECURSIVE ListFrom(_, _)
ListFrom(q, n) ==
  IF q = -1 \/ n = 0 THEN << >>
  ELSE << q >> \o ListFrom(partCellData[q].next, n - 1)

\* The particles met from the head of cell c, at most one more than exist.
CellList(c) == ListFrom(cells[c], Cardinality(CellParticles) + 1)

\* C10: every cell's list ends at -1 without meeting a particle twice, its
\* head has prev = -1, and for every linked particle q the neighbours point
\* back: prev of next(q) is q and next of prev(q) is q.
C10_CellListsWellFormed ==
  /\ \A c \in CellIDs :
       /\ Len(CellList(c)) <= Cardinality(CellParticles)
       /\ \A i, j \in 1..Len(CellList(c)) :
            CellList(c)[i] = CellList(c)[j] => i = j
       /\ cells[c] # -1 => partCellData[cells[c]].prev = -1
  /\ \A q \in linked :
       /\ partCellData[q].next # -1 =>
            partCellData[partCellData[q].next].prev = q
       /\ partCellData[q].prev # -1 =>
            partCellData[partCellData[q].prev].next = q

C10_Witness ==
  /\ call.op = "removeFromCell"
  /\ \E c \in CellIDs : Len(CellList(c)) = 2
  /\ Cardinality(linked) = 2

\* C11: every particle that has been added and not removed (so every
\* particle after a completed move) is met from the head of exactly one
\* cell, and its cell field names that cell; a particle taken out of its
\* list is met from no head.
CellsHolding(q) ==
  { c \in CellIDs : \E i \in 1..Len(CellList(c)) : CellList(c)[i] = q }

C11_OneCellPerParticle ==
  \A q \in CellParticles :
    IF q \in linked
    THEN CellsHolding(q) = { partCellData[q].cell }
    ELSE CellsHolding(q) = {}

C11_Witness ==
  /\ call.op = "moveCell"
  /\ linked = CellParticles
  /\ \A c \in CellIDs : cells[c] # -1
  /\ \E q \in CellParticles : partCellData[q].cell = 1 /\ partCellData[q].next # -1

(***************************************************************************)
(* Simulation::getEvent: the loop over the interaction list, from index i. *)
(* The answer names the interaction whose getEvent made the event (by is   *)
(* its index, 0 when the loop falls through and the function throws).      *)
(***************************************************************************)
RECURSIVE ScanInteractions(_, _, _, _)
ScanInteractions(ints, i, p1, p2) ==
  IF i > Len(ints) THEN 0
  ELSE IF isInteraction(ints[i], p1, p2) THEN i
  ELSE ScanInteractions(ints, i + 1, p1, p2)

SimulationGetEvent(ints, cm, p1, p2, o) ==
  LET i == ScanInteractions(ints, 1, p1, p2)
  IN IF i = 0 THEN [threw |-> TRUE, by |-> 0, ev |-> IntEvent(p1, p2, 0, "NOEVENT")]
     ELSE [threw |-> FALSE, by |-> i, ev |-> DumbbellsGetEvent(cm, p1, p2, o)]

\* The pair a lookup was asked about, kept in the call record.
AskedPair(p1, p2) == [NoEvent EXCEPT !.p1 = p1, !.p2 = p2]

GetInteractionCall(p1, p2) ==
  /\ \E i \in { getInteraction(interactions, p1, p2) } :
       call' = MkCall("getInteraction", i = 0, i, FALSE, AskedPair(p1, p2), << >>)
  /\ UNCHANGED << simVars, schedVars, captureMap, phaseLog, initOrder, replicas, extVars, cellVars >>

SimulationGetEventCall(p1, p2, o) ==
  /\ p1 # p2
  /\ \E r \in { SimulationGetEvent(interactions, captureMap, p1, p2, o) } :
       call' = MkCall("Simulation::getEvent", r.threw, r.by, FALSE,
                      [AskedPair(p1, p2) EXCEPT !.type = r.ev.type, !.dt = r.ev.dt],
                      << >>)
  /\ UNCHANGED << simVars, schedVars, captureMap, phaseLog, initOrder, replicas, extVars, cellVars >>

\* Interaction lists the lookups are tried on: every list of at most
\* MaxInteractions interactions over every selector of two particles.
LookupParticles == {0, 1}
LookupLists ==
  UNION { [1..n -> { Dumbbells(rng, 1, 0) : rng \in SUBSET AllPairs(LookupParticles) }] :
            n \in 0..MaxInteractions }

LookupInit ==
  /\ status = START
  /\ loaded = TRUE
  /\ particles = LookupParticles
  /\ species = << LookupParticles >>
  /\ interactions \in LookupLists
  /\ locals = << >>
  /\ globals = << >>
  /\ systems = << >>
  /\ outputPlugins = << >>
  /\ periodic = FALSE
  /\ primaryCellSize = << 4, 4, 4 >>
  /\ systemTime = 0
  /\ eventCount = 0
  /\ endEventCount = DefaultEndEventCount
  /\ freestreamAcc = 0
  /\ schedInitialised = FALSE
  /\ collCount = [p \in LookupParticles |-> 0]
  /\ pecTime = [p \in LookupParticles |-> 0]
  /\ queue = {}
  /\ captureMap \in SUBSET NonSelfPairs(LookupParticles)
  /\ call = Done("loadXMLfile")
  /\ phaseLog = << >>
  /\ initOrder = << >>
  /\ CellsIdle
  /\ ReplicasIdle /\ ExtrasIdle

LookupNext ==
  \/ \E p1 \in particles, p2 \in particles : GetInteractionCall(p1, p2)
  \/ \E p1 \in particles, p2 \in particles, o \in Oracles :
       SimulationGetEventCall(p1, p2, o)

SpecLookup == LookupInit /\ [][LookupNext]_vars

\* C12: getInteraction and Simulation::getEvent both answer with the first
\* interaction in list order whose selector matches the pair, so they
\* choose the same one; both throw when no interaction matches.
Matching(ints, p1, p2) == { i \in 1..Len(ints) : {p1, p2} \in ints[i].range }

C12_FirstMatchingInteraction ==
  call.op \in {"getInteraction", "Simulation::getEvent"} =>
    LET hits == Matching(interactions, call.ev.p1, call.ev.p2)
    IN /\ call.threw <=> hits = {}
       /\ hits # {} => call.ret \in hits /\ \A j \in hits : call.ret <= j
       /\ call.op = "Simulation::getEvent" /\ hits # {} =>
            call.ret = getInteraction(interactions, call.ev.p1, call.ev.p2)

C12_Witness ==
  /\ call.op = "Simulation::getEvent" /\ ~call.threw
  /\ Matching(interactions, call.ev.p1, call.ev.p2) = {1, 2}
  /\ call.ret = 1
  /\ interactions[1] # interactions[2]

(***************************************************************************)
(* The configuration checks of initialise(): one load of a configuration   *)
(* and one initialise(), over configurations that differ in their species, *)
(* interactions, locals, globals, boundary conditions and cell size.  No   *)
(* component's own initialise() throws here.                               *)
(***************************************************************************)
ConfigParticles == {0, 1}
ConfigSpecies == { << {0, 1} >>, << {0}, {1} >>, << {0} >>, << {0, 1}, {1} >>,
                   << {0}, {0} >> }
ConfigInteractions ==
  { Dumbbells(rng, len, 0) :
      rng \in { AllPairs(ConfigParticles), SelfPairs(ConfigParticles), { {0, 1} } },
      len \in {1, 2} }
ConfigSizes == { << 4, 4, 4 >>, << 4, 2, 4 >>, << 3, 4, 5 >> }

ConfigDocs ==
  { [ particles |-> ConfigParticles, species |-> sp, interactions |-> ints,
      locals |-> ls, globals |-> gs, periodic |-> per, size |-> sz ] :
      sp \in ConfigSpecies,
      ints \in UNION { [1..n -> ConfigInteractions] : n \in 0..MaxInteractions },
      ls \in { << >>, << "Wall", "Roof" >> },
      gs \in { << >>, << "Cells" >> },
      per \in BOOLEAN,
      sz \in ConfigSizes }

ConfigNext ==
  \/ ~loaded /\ \E doc \in ConfigDocs : LoadXMLfile(doc, TRUE)
  \/ loaded /\ \E in \in InitInputs : in.fault = "none" /\ Initialise(in.fault, in.cap, in.orc)

SpecConfig == Init /\ [][ConfigNext]_vars

\* C13 as stated: once status has reached INTERACTION_INIT every pair of
\* particles is matched by exactly one interaction.
C13_ExactlyOneInteraction ==
  status >= INTERACTION_INIT =>
    \A p \in particles, q \in particles :
      Cardinality(Matching(interactions, p, q)) = 1

\* C13, amended: once status has reached INTERACTION_INIT every pair of
\* particles is matched by at least one interaction; a pair may be matched
\* by several.
C13_AtLeastOneInteraction ==
  status >= INTERACTION_INIT =>
    \A p \in particles, q \in particles : Matching(interactions, p, q) # {}

C13_Witness ==
  /\ status = INITIALISED
  /\ \E p \in particles, q \in particles :
       p # q /\ Cardinality(Matching(interactions, p, q)) = 2

\* C14: an initialise() called while some pair of particles, a particle
\* with itself included, is matched by no interaction throws, and status
\* stays below INTERACTION_INIT.
C14_MissingInteractionIsFatal ==
  [][ (call'.op = "initialise"
         /\ \E p \in particles, q \in particles : Matching(interactions, p, q) = {})
        => call'.threw /\ status' < INTERACTION_INIT ]_vars

C14_Witness ==
  /\ call.op = "initialise" /\ call.threw
  /\ status = DYNAMICS_INIT
  /\ \A p \in particles : Matching(interactions, p, p) # {}
  /\ \E p \in particles, q \in particles : Matching(interactions, p, q) = {}

\* C15: initialise() gets past the species checks only when every particle
\* is in exactly one species; with a particle in no species or in more
\* than one it throws and status stays START.
InSpecies(sps, p) == { i \in 1..Len(sps) : p \in sps[i] }
Partition(P, sps) == \A p \in P : Cardinality(InSpecies(sps, p)) = 1

C15_SpeciesPartition ==
  [][ call'.op = "initialise" /\ status = START =>
        /\ ~Partition(particles, species) => call'.threw /\ status' = START
        /\ status' >= SPECIES_INIT => Partition(particles, species) ]_vars

C15_Witness ==
  /\ call.op = "initialise" /\ call.threw
  /\ status = START
  /\ \A p \in particles : InSpecies(species, p) # {}
  /\ \E p \in particles : Cardinality(InSpecies(species, p)) = 2

C17_LocalsBeforeGlobals ==
  (call.op = "initialise" /\ ~call.threw) =>
    /\ Len(initOrder) = Len(locals) + Len(globals)
    /\ \A i \in 1..Len(locals) :
         initOrder[i] = [kind |-> "Local", name |-> locals[i], ID |-> i - 1]
    /\ \A j \in 1..Len(globals) :
         initOrder[Len(locals) + j] =
           [kind |-> "Global", name |-> globals[j], ID |-> j - 1]
    /\ \A i, j \in 1..Len(initOrder) :
         initOrder[i].kind = "Local" /\ initOrder[j].kind = "Global" => i < j
    /\ periodic =>
         /\ globals # << >>
         /\ globals[Len(globals)] = "PBCSentinel"
         /\ initOrder[Len(initOrder)] =
              [kind |-> "Global", name |-> "PBCSentinel", ID |-> Len(globals) - 1]

C17_Witness ==
  /\ call.op = "initialise" /\ ~call.threw
  /\ periodic
  /\ Len(locals) = 2
  /\ globals = << "Cells", "PBCSentinel" >>
  /\ Len(initOrder) = 4

(***************************************************************************)
(* The clocks of a three-particle simulation that runs events, is reset    *)
(* and initialised again, and exchanges its clock with a partner.          *)
(* pecTime[p] is how far particle p's stored state lags behind systemTime. *)
(***************************************************************************)
ClockPartners ==
  { [systemTime |-> t, eventCount |-> 0] : t \in {0, MaxEvents} }

ClockNext ==
  \/ \E in \in StepInputs :
       /\ systemTime < MaxEvents
       /\ freestreamAcc < MaxCollisions
       /\ \A p \in particles : collCount[p] < MaxCollisions
       /\ in.efault = "none" /\ in.orc = OrcFound
       /\ RunSimulationStep(in.ev, in.efault, in.orc)
  \/ Reset
  \/ \E partner \in ClockPartners : ReplexerSwap(partner)
  \/ \E in \in InitInputs :
       /\ in.fault = "none" /\ in.cap = {} /\ in.orc = OrcFound
       /\ Initialise(in.fault, in.cap, in.orc)

ClockInit == EventsInit /\ captureMap = {} /\ outputPlugins = << >>

SpecClock == ClockInit /\ [][ClockNext]_vars

Temperatures == {1, 2, 4, 9}
ReplicaParticles == {0, 1}

\* sqrt(num / den), held as its square.
SqrtRatio(num, den) == [n |-> num, d |-> den]
\* 1.0 / f
Inverse(f) == [n |-> f.d, d |-> f.n]
\* x * f on held values.
Times(x, f) == (x * f.n) \div f.d

\* for (Particle& part : particles) part.getVelocity() *= scale
scaleVelocities(vel, f) == [p \in DOMAIN vel |-> Times(vel[p], f)]

\* Scheduler::rescaleTimes: every stored time is multiplied, those of the
\* SYSTEM events included.
rescaleTimes(sched, f) ==
  [ times |-> [i \in 1..Len(sched.times) |-> Times(sched.times[i], f)],
    system |-> "rescaled" ]

\* Scheduler::rebuildSystemEvents: the SYSTEM events are pushed afresh.
rebuildSystemEvents(sched) == [sched EXCEPT !.system = "rebuilt"]

\* Faulty variant: the ensembles are swapped before the factors are taken.
replexerSwapEnsembleFirst(this, other) ==
  LET a1 == [this EXCEPT !.pecTime = updateAllParticles(@), !.T = other.T]
      b1 == [other EXCEPT !.pecTime = updateAllParticles(@), !.T = this.T]
      a2 == [a1 EXCEPT !.systemTime = b1.systemTime, !.eventCount = b1.eventCount]
      b2 == [b1 EXCEPT !.systemTime = a1.systemTime, !.eventCount = a1.eventCount]
      scale1 == SqrtRatio(b2.T, a2.T)
      a3 == [a2 EXCEPT !.vel = scaleVelocities(@, scale1)]
      b3 == [b2 EXCEPT !.sched = rescaleTimes(@, scale1)]
      scale2 == Inverse(scale1)
      b4 == [b3 EXCEPT !.vel = scaleVelocities(@, scale2)]
      a4 == [a3 EXCEPT !.sched = rescaleTimes(@, scale2)]
      a5 == [a4 EXCEPT !.sched = rebuildSystemEvents(@)]
      b5 == [b4 EXCEPT !.sched = rebuildSystemEvents(@)]
  IN << a5, b5 >>

\* Faulty variant: both simulations' velocities take the factor scale1.
replexerSwapOneFactor(this, other) ==
  LET a1 == [this EXCEPT !.pecTime = updateAllParticles(@)]
      b1 == [other EXCEPT !.pecTime = updateAllParticles(@)]
      a2 == [a1 EXCEPT !.systemTime = b1.systemTime, !.eventCount = b1.eventCount]
      b2 == [b1 EXCEPT !.systemTime = a1.systemTime, !.eventCount = a1.eventCount]
      scale1 == SqrtRatio(b2.T, a2.T)
      a3 == [a2 EXCEPT !.vel = scaleVelocities(@, scale1)]
      b3 == [b2 EXCEPT !.sched = rescaleTimes(@, scale1)]
      scale2 == Inverse(scale1)
      b4 == [b3 EXCEPT !.vel = scaleVelocities(@, scale1)]
      a4 == [a3 EXCEPT !.sched = rescaleTimes(@, scale2)]
      a5 == [a4 EXCEPT !.sched = rebuildSystemEvents(@)]
      b5 == [b4 EXCEPT !.sched = rebuildSystemEvents(@)]
      a6 == [a5 EXCEPT !.T = b5.T]
      b6 == [b5 EXCEPT !.T = a5.T]
  IN << a6, b6 >>

\* Faulty variant: the ensembles are never swapped.
replexerSwapKeepEnsembles(this, other) ==
  LET a1 == [this EXCEPT !.pecTime = updateAllParticles(@)]
      b1 == [other EXCEPT !.pecTime = updateAllParticles(@)]
      a2 == [a1 EXCEPT !.systemTime = b1.systemTime, !.eventCount = b1.eventCount]
      b2 == [b1 EXCEPT !.systemTime = a1.systemTime, !.eventCount = a1.eventCount]
      scale1 == SqrtRatio(b2.T, a2.T)
      a3 == [a2 EXCEPT !.vel = scaleVelocities(@, scale1)]
      b3 == [b2 EXCEPT !.sched = rescaleTimes(@, scale1)]
      scale2 == Inverse(scale1)
      b4 == [b3 EXCEPT !.vel = scaleVelocities(@, scale2)]
      a4 == [a3 EXCEPT !.sched = rescaleTimes(@, scale2)]
      a5 == [a4 EXCEPT !.sched = rebuildSystemEvents(@)]
      b5 == [b4 EXCEPT !.sched = rebuildSystemEvents(@)]
  IN << a5, b5 >>

\* Faulty variant: each scheduler is rescaled by its own velocity factor.
replexerSwapOwnFactor(this, other) ==
  LET a1 == [this EXCEPT !.pecTime = updateAllParticles(@)]
      b1 == [other EXCEPT !.pecTime = updateAllParticles(@)]
      a2 == [a1 EXCEPT !.systemTime = b1.systemTime, !.eventCount = b1.eventCount]
      b2 == [b1 EXCEPT !.systemTime = a1.systemTime, !.eventCount = a1.eventCount]
      scale1 == SqrtRatio(b2.T, a2.T)
      a3 == [a2 EXCEPT !.vel = scaleVelocities(@, scale1)]
      b3 == [b2 EXCEPT !.sched = rescaleTimes(@, Inverse(scale1))]
      scale2 == Inverse(scale1)
      b4 == [b3 EXCEPT !.vel = scaleVelocities(@, scale2)]
      a4 == [a3 EXCEPT !.sched = rescaleTimes(@, Inverse(scale2))]
      a5 == [a4 EXCEPT !.sched = rebuildSystemEvents(@)]
      b5 == [b4 EXCEPT !.sched = rebuildSystemEvents(@)]
      a6 == [a5 EXCEPT !.T = b5.T]
      b6 == [b5 EXCEPT !.T = a5.T]
  IN << a6, b6 >>

\* The statements of replexerSwap in their order; the result is the pair
\* (this, other) when it returns.
replexerSwap(this, other) ==
  LET a1 == [this EXCEPT !.pecTime = updateAllParticles(@)]
      b1 == [other EXCEPT !.pecTime = updateAllParticles(@)]
      a2 == [a1 EXCEPT !.systemTime = b1.systemTime, !.eventCount = b1.eventCount]
      b2 == [b1 EXCEPT !.systemTime = a1.systemTime, !.eventCount = a1.eventCount]
      scale1 == SqrtRatio(b2.T, a2.T)
      a3 == [a2 EXCEPT !.vel = scaleVelocities(@, scale1)]
      b3 == [b2 EXCEPT !.sched = rescaleTimes(@, scale1)]
      scale2 == Inverse(scale1)
      b4 == [b3 EXCEPT !.vel = scaleVelocities(@, scale2)]
      a4 == [a3 EXCEPT !.sched = rescaleTimes(@, scale2)]
      a5 == [a4 EXCEPT !.sched = rebuildSystemEvents(@)]
      b5 == [b4 EXCEPT !.sched = rebuildSystemEvents(@)]
      a6 == [a5 EXCEPT !.T = b5.T]
      b6 == [b5 EXCEPT !.T = a5.T]
  IN << a6, b6 >>

\* The last MaxExchanges values of a history h, with x added.
Remember(h, x) ==
  LET all == Append(h, x)
  IN IF Len(all) <= MaxExchanges THEN all
     ELSE [k \in 1..MaxExchanges |-> all[k + Len(all) - MaxExchanges]]

\* this is replicas[i], other is replicas[j].
ReplexerSwapBoth(i, j) ==
  /\ replicas # << >>
  /\ i # j
  /\ LET r == replexerSwap(replicas[i], replicas[j])
     IN replicas' = [replicas EXCEPT ![i] = r[1], ![j] = r[2]]
  /\ exchanges' = Remember(exchanges, replicas)
  /\ call' = Done("replexerSwap")
  /\ UNCHANGED << simVars, schedVars, captureMap, phaseLog, initOrder, units,
                  lastRunMFT, properties, topology, xmlFile, cellOverlap,
                  liouvillean, ptrScheduler, ipCompression, lastReset, cellVars >>

Replicas(clocks, counts) ==
  { [ systemTime |-> t, eventCount |-> n,
      pecTime |-> [p \in ReplicaParticles |-> IF p = 0 THEN 1 ELSE 0],
      vel |-> v, T |-> T,
      sched |-> [times |-> [i \in 1..k |-> 36 * i * i], system |-> "pushed"] ] :
      t \in clocks, n \in counts,
      v \in [ReplicaParticles -> {-36, 144}],
      T \in Temperatures,
      k \in 1..MaxSchedEvents }

ReplexInit ==
  /\ SimInit
  /\ CellsIdle
  /\ ExtrasIdle
  /\ replicas \in { << a, b >> : a \in Replicas({0, 6}, {1}), b \in Replicas({12}, {0, 2}) }

ReplexNext == \E i \in {1, 2}, j \in {1, 2} : ReplexerSwapBoth(i, j)

SpecReplex == ReplexInit /\ [][ReplexNext]_vars

Abs(x) == IF x < 0 THEN 0 - x ELSE x

\* Twice the total kinetic energy of unit masses: the sum of the squared
\* velocities.
KE2(vel) == SeqSum([i \in 1..2 |-> Abs(vel[i - 1])])

\* C19: replexerSwap exchanges the two simulations' systemTime and
\* eventCount, multiplies each simulation's velocities by
\* sqrt(T_other / T_self) of the temperatures before the exchange,
\* multiplies that simulation's scheduler times by the reciprocal of that
\* factor, rebuilds the SYSTEM events of both schedulers, and leaves the
\* ensembles exchanged.
C19_ReplexerSwapEffect ==
  [][ (call'.op = "replexerSwap" /\ replicas # << >>) =>
        \A i \in {1, 2} :
          LET self == replicas[i]
              other == replicas[3 - i]
              after == replicas'[i]
          IN /\ after.systemTime = other.systemTime
             /\ after.eventCount = other.eventCount
             /\ \A p \in ReplicaParticles :
                  after.vel[p] * self.T = self.vel[p] * other.T
             /\ Len(after.sched.times) = Len(self.sched.times)
             /\ \A k \in 1..Len(self.sched.times) :
                  after.sched.times[k] * other.T = self.sched.times[k] * self.T
             /\ after.sched.system = "rebuilt"
             /\ after.T = other.T ]_vars

C19_Witness ==
  /\ call.op = "replexerSwap" /\ replicas # << >>
  /\ replicas[1].T = 9 /\ replicas[2].T = 4
  /\ replicas[1].systemTime # replicas[2].systemTime
  /\ replicas[1].eventCount # replicas[2].eventCount
  /\ Len(replicas[1].sched.times) = 2
  /\ replicas[1].sched.system = "rebuilt"

Restored(before, now) ==
  \A i \in {1, 2} :
    /\ now[i].systemTime = before[i].systemTime
    /\ now[i].eventCount = before[i].eventCount
    /\ now[i].vel = before[i].vel
    /\ now[i].sched.times = before[i].sched.times
    /\ now[i].T = before[i].T

\* C21: two replexerSwap calls in a row between the same two simulations
\* restore the systemTime, eventCount, velocities, scheduler times and
\* ensembles both had before the first.
C21_ExchangeTwiceRestores ==
  Len(exchanges) >= 2 => Restored(exchanges[Len(exchanges) - 1], replicas)

C21_Witness ==
  /\ Len(exchanges) >= 2
  /\ replicas[1].T = 1 /\ replicas[2].T = 2
  /\ replicas[1].systemTime # replicas[2].systemTime
  /\ replicas[1].eventCount # replicas[2].eventCount
  /\ exchanges[Len(exchanges)][1].vel # replicas[1].vel
  /\ exchanges[Len(exchanges)][1].T = 2

\* The scheduler times of box are those of before multiplied by
\* sqrt(num / den).
TimesScaled(before, after, num, den) ==
  /\ Len(after.sched.times) = Len(before.sched.times)
  /\ \A k \in 1..Len(before.sched.times) :
       after.sched.times[k] * den = before.sched.times[k] * num

\* C22 as stated: in an exchange between box 1 at temperature 1 and box 2
\* at temperature 2 the scheduler times of box 1 are multiplied by sqrt(2)
\* and those of box 2 by sqrt(1/2).
C22_ColdBoxTimesGrow ==
  [][ (call'.op = "replexerSwap" /\ replicas # << >>
         /\ replicas[1].T = 1 /\ replicas[2].T = 2) =>
        /\ TimesScaled(replicas[1], replicas'[1], 2, 1)
        /\ TimesScaled(replicas[2], replicas'[2], 1, 2) ]_vars

\* C22, amended: in an exchange between box 1 at temperature 1 and box 2
\* at temperature 2 the scheduler times of box 1 are multiplied by
\* sqrt(1/2) and those of box 2 by sqrt(2), whichever of the two boxes
\* replexerSwap is called on.
C22_ColdBoxTimesShrink ==
  [][ (call'.op = "replexerSwap" /\ replicas # << >>
         /\ replicas[1].T = 1 /\ replicas[2].T = 2) =>
        /\ TimesScaled(replicas[1], replicas'[1], 1, 2)
        /\ TimesScaled(replicas[2], replicas'[2], 2, 1)
        /\ \A on \in {1, 2} :
             LET r == replexerSwap(replicas[on], replicas[3 - on])
             IN /\ TimesScaled(replicas[on], r[1], IF on = 1 THEN 1 ELSE 2,
                               IF on = 1 THEN 2 ELSE 1)
                /\ TimesScaled(replicas[3 - on], r[2], IF on = 1 THEN 2 ELSE 1,
                               IF on = 1 THEN 1 ELSE 2) ]_vars

C22_Witness ==
  /\ call.op = "replexerSwap" /\ replicas # << >>
  /\ exchanges # << >>
  /\ exchanges[Len(exchanges)][1].T = 1 /\ exchanges[Len(exchanges)][2].T = 2
  /\ exchanges[Len(exchanges)][1].sched.times = << 36, 144 >>
  /\ replicas[1].sched.times = << 18, 72 >>
  /\ replicas[2].sched.times[1] = 72

(***************************************************************************)
(* The name checks of loadXMLfile: one load into a constructed simulation  *)
(* of the file on disk, over files whose elements carry the names A and B  *)
(* in every kind.                                                          *)
(***************************************************************************)
NameLists == { << >>, << "A" >>, << "A", "B" >>, << "A", "A" >>, << "A", "B", "A" >> }
NamedSpecies ==
  { [names |-> << "A" >>, elems |-> << {0, 1} >>],
    [names |-> << "A", "B" >>, elems |-> << {0}, {1} >>],
    [names |-> << "B", "B" >>, elems |-> << {0}, {1} >>] }
NamedInteractions ==
  { [names |-> << "A" >>, elems |-> << Dumbbells(AllPairs({0, 1}), 1, 0) >>],
    [names |-> << "A", "B" >>,
     elems |-> << Dumbbells(SelfPairs({0, 1}), 1, 0), Dumbbells({ {0, 1} }, 2, 0) >>],
    [names |-> << "A", "A" >>,
     elems |-> << Dumbbells(SelfPairs({0, 1}), 1, 0), Dumbbells({ {0, 1} }, 2, 0) >>] }

NameDocs ==
  { [ written |-> TRUE, particles |-> {0, 1},
      species |-> sp.elems, speciesNames |-> sp.names,
      structures |-> st,
      interactions |-> it.elems, interactionNames |-> it.names,
      locals |-> ls, globals |-> gs, systems |-> ss,
      periodic |-> FALSE, size |-> << 4, 4, 4 >> ] :
      sp \in NamedSpecies, st \in NameLists, it \in NamedInteractions,
      ls \in NameLists, gs \in NameLists, ss \in NameLists }

NamesInit ==
  /\ SimInit /\ CellsIdle /\ ReplicasIdle /\ ExtrasFresh
  /\ xmlFile \in NameDocs

NamesNext == call.op = "construct" /\ LoadXMLfile(xmlFile, TRUE)

SpecNames == NamesInit /\ [][NamesNext]_vars

\* Two siblings carry the same name.
SameNameTwice(names) ==
  \E a \in 1..Len(names), b \in 1..Len(names) : a < b /\ names[a] = names[b]

\* The kinds of a document in the order of the file: the names of the
\* siblings and the elements they stand for.
KindsOf(doc) ==
  << [names |-> doc.speciesNames, elems |-> doc.species],
     [names |-> doc.structures, elems |-> doc.structures],
     [names |-> doc.interactionNames, elems |-> doc.interactions],
     [names |-> doc.locals, elems |-> doc.locals],
     [names |-> doc.globals, elems |-> doc.globals],
     [names |-> doc.systems, elems |-> doc.systems] >>

\* C25: a loadXMLfile of a readable file of the current version, called at
\* START, throws exactly when two siblings of one kind carry the same
\* name; the same name in two kinds is accepted; and the elements of a kind
\* are added only when the check of that kind and of every earlier kind
\* passed.
C25_DuplicateNameIsFatal ==
  [][ (call'.op = "loadXMLfile" /\ status = START /\ xmlFile # NoFile) =>
          LET kinds == KindsOf(xmlFile)
              before == << species, topology, interactions, locals, globals, systems >>
              after == << species', topology', interactions', locals', globals', systems' >>
          IN /\ call'.threw <=> \E k \in 1..6 : SameNameTwice(kinds[k].names)
             /\ \A k \in 1..6 :
                  after[k] = IF \E m \in 1..k : SameNameTwice(kinds[m].names)
                             THEN before[k]
                             ELSE before[k] \o kinds[k].elems ]_vars

C25_Witness ==
  /\ call.op = "loadXMLfile" /\ call.threw
  /\ Len(species) = 2
  /\ topology = << "A", "B" >>
  /\ Len(interactions) = 1
  /\ locals = << >> /\ globals = << >> /\ systems = << >>

(***************************************************************************)
(* Simulation::writeXMLfile.  mft is what OPMisc::getMFT returns, HUGE_VAL *)
(* when it is not finite.  The file holds what loadXMLfile reads; saved    *)
(* keeps, beside the file, the values the simulation had when it wrote it. *)
(***************************************************************************)
MFTs == { HUGE_VAL, 1 }

WriteXMLfile(mft) ==
  LET hasMisc == HasName(outputPlugins, "Misc")
      inFile == [L |-> properties.L \div units.unitLength,
                 T |-> properties.T \div units.unitTime]
  IN /\ ptrScheduler # "null"
     /\ pecTime' = updateAllParticles(pecTime)
     /\ xmlFile' =
          [ written |-> TRUE,
            hasMFT |-> hasMisc,
            lastMFT |-> IF ~hasMisc THEN 0
                        ELSE IF mft # HUGE_VAL THEN mft ELSE lastRunMFT,
            scheduler |-> ptrScheduler,
            size |-> [k \in 1..Len(primaryCellSize) |->
                        primaryCellSize[k] \div units.unitLength],
            particles |-> particles,
            species |-> species,
            periodic |-> periodic,
            structures |-> topology,
            interactions |-> interactions,
            locals |-> locals,
            globals |-> globals,
            systems |-> systems,
            properties |-> inFile,
            saved |-> [ primaryCellSize |-> primaryCellSize,
                        lastRunMFT |-> lastRunMFT,
                        properties |-> properties,
                        units |-> units,
                        mft |-> IF hasMisc THEN mft ELSE HUGE_VAL ] ]
     /\ properties' = [L |-> inFile.L * units.unitLength,
                       T |-> inFile.T * units.unitTime]
     /\ call' = Done("writeXMLfile")
     /\ UNCHANGED << status, loaded, particles, species, interactions, locals,
                     globals, systems, outputPlugins, periodic, primaryCellSize,
                     systemTime, eventCount, endEventCount, freestreamAcc,
                     schedVars, captureMap, phaseLog, initOrder, replicas,
                     exchanges, units, lastRunMFT, topology, cellOverlap,
                     liouvillean, ptrScheduler, ipCompression, lastReset, cellVars >>

(***************************************************************************)
(* IPCompression: the constructor, MakeGrowth, CellSchedulerHack and       *)
(* RestoreSystem.  The system that watches the neighbour list at place i   *)
(* of globals is CompressionFixes[i].                                      *)
(***************************************************************************)
MaxSystems == 4   \* longest systems list CellSchedulerHack is explored on
MaxUnit == 4      \* largest unit scale RestoreSystem is explored up to
GrowthRates == { 1, 2 }
CompressionFixes == << "NBListCompressionFix1", "NBListCompressionFix2",
                       "NBListCompressionFix3" >>

IPCompression(GR) ==
  /\ ipCompression = NoCompression
  /\ ipCompression' = [growthRate |-> GR, oldLio |-> "null"]
  /\ call' = Done("IPCompression")
  /\ UNCHANGED << simVars, schedVars, captureMap, phaseLog, initOrder, replicas,
                  exchanges, units, lastRunMFT, properties, topology, xmlFile,
                  cellOverlap, liouvillean, ptrScheduler, lastReset, cellVars >>

\* Faulty variant: MakeGrowth() that installs the compression dynamics
\* without keeping the old one.
MakeGrowthNoBackup ==
  /\ pecTime' = updateAllParticles(pecTime)
  /\ liouvillean' = "Compression"
  /\ call' = Done("MakeGrowth")
  /\ UNCHANGED << status, loaded, particles, species, interactions, locals,
                  globals, systems, outputPlugins, periodic, primaryCellSize,
                  systemTime, eventCount, endEventCount, freestreamAcc,
                  schedVars, captureMap, phaseLog, initOrder, replicas,
                  exchanges, units, lastRunMFT, properties, topology, xmlFile,
                  cellOverlap, ptrScheduler, ipCompression, lastReset, cellVars >>

MakeGrowth ==
  /\ pecTime' = updateAllParticles(pecTime)
  /\ ipCompression' = [ipCompression EXCEPT !.oldLio = liouvillean]
  /\ liouvillean' = "Compression"
  /\ call' = Done("MakeGrowth")
  /\ UNCHANGED << status, loaded, particles, species, interactions, locals,
                  globals, systems, outputPlugins, periodic, primaryCellSize,
                  systemTime, eventCount, endEventCount, freestreamAcc,
                  schedVars, captureMap, phaseLog, initOrder, replicas,
                  exchanges, units, lastRunMFT, properties, topology, xmlFile,
                  cellOverlap, ptrScheduler, lastReset, cellVars >>

\* The places of the neighbour lists in globals, in list order.
NBPlaces(globs) ==
  SelectSeq([i \in 1..Len(globs) |-> i], LAMBDA i : globs[i] \in NeighbourLists)

\* Faulty variant: CellSchedulerHack that watches the first neighbour list only.
CellSchedulerHackFirstOnly ==
  LET nb == NBPlaces(globals)
      first == IF nb = << >> THEN << >> ELSE << Head(nb) >>
  IN /\ Len(systems) + Len(nb) <= MaxSystems
     /\ cellOverlap' = [i \in DOMAIN cellOverlap |->
                          IF i \in NBGlobals(globals) THEN FALSE ELSE cellOverlap[i]]
     /\ systems' = systems \o [k \in 1..Len(first) |-> CompressionFixes[first[k]]]
     /\ call' = Done("CellSchedulerHack")
     /\ UNCHANGED << status, loaded, particles, species, interactions, locals,
                     globals, outputPlugins, periodic, primaryCellSize,
                     systemTime, eventCount, endEventCount, freestreamAcc, pecTime,
                     schedVars, captureMap, phaseLog, initOrder, replicas,
                     exchanges, units, lastRunMFT, properties, topology, xmlFile,
                     liouvillean, ptrScheduler, ipCompression, lastReset, cellVars >>

CellSchedulerHack ==
  LET nb == NBPlaces(globals)
  IN /\ Len(systems) + Len(nb) <= MaxSystems
     /\ cellOverlap' = [i \in DOMAIN cellOverlap |->
                          IF i \in NBGlobals(globals) THEN FALSE ELSE cellOverlap[i]]
     /\ systems' = systems \o [k \in 1..Len(nb) |-> CompressionFixes[nb[k]]]
     /\ call' = Done("CellSchedulerHack")
     /\ UNCHANGED << status, loaded, particles, species, interactions, locals,
                     globals, outputPlugins, periodic, primaryCellSize,
                     systemTime, eventCount, endEventCount, freestreamAcc, pecTime,
                     schedVars, captureMap, phaseLog, initOrder, replicas,
                     exchanges, units, lastRunMFT, properties, topology, xmlFile,
                     liouvillean, ptrScheduler, ipCompression, lastReset, cellVars >>

\* The neighbour lists RestoreSystem has rebuilt for output
\* (fixNBlistForOutput of every SysNBListCompressionFix), in systems order.
FixedForOutput(syss) ==
  LET fixes == SelectSeq(syss, LAMBDA n : HasName(CompressionFixes, n))
  IN [k \in 1..Len(fixes) |->
        CHOOSE i \in 1..Len(CompressionFixes) : CompressionFixes[i] = fixes[k]]

rescale_factor(dSysTime, growthRate, unitTime) ==
  1 + (dSysTime * growthRate) \div unitTime

\* Faulty variant: RestoreSystem that rescales the unit length only.
RestoreSystemLengthOnly ==
  LET f == rescale_factor(systemTime, ipCompression.growthRate, units.unitTime)
      cellular == ptrScheduler = "NeighbourList"
  IN /\ pecTime' = updateAllParticles(pecTime)
     /\ cellOverlap' = IF cellular THEN [i \in DOMAIN cellOverlap |-> TRUE]
                       ELSE cellOverlap
     /\ units' = [unitLength |-> units.unitLength * f, unitTime |-> units.unitTime]
     /\ properties' = [L |-> properties.L * f, T |-> properties.T * f]
     /\ liouvillean' = ipCompression.oldLio
     /\ call' = MkCall("RestoreSystem", FALSE, FALSE, FALSE, NoEvent,
                       IF cellular THEN FixedForOutput(systems) ELSE << >>)
     /\ UNCHANGED << status, loaded, particles, species, interactions, locals,
                     globals, systems, outputPlugins, periodic, primaryCellSize,
                     systemTime, eventCount, endEventCount, freestreamAcc,
                     schedVars, captureMap, phaseLog, initOrder, replicas,
                     exchanges, lastRunMFT, topology, xmlFile, ptrScheduler,
                     ipCompression, lastReset, cellVars >>

RestoreSystem ==
  LET f == rescale_factor(systemTime, ipCompression.growthRate, units.unitTime)
      cellular == ptrScheduler = "NeighbourList"
  IN /\ pecTime' = updateAllParticles(pecTime)
     /\ cellOverlap' = IF cellular THEN [i \in DOMAIN cellOverlap |-> TRUE]
                       ELSE cellOverlap
     /\ units' = [unitLength |-> units.unitLength * f, unitTime |-> units.unitTime * f]
     /\ properties' = [L |-> properties.L * f, T |-> properties.T * f]
     /\ liouvillean' = ipCompression.oldLio
     /\ call' = MkCall("RestoreSystem", FALSE, FALSE, FALSE, NoEvent,
                       IF cellular THEN FixedForOutput(systems) ELSE << >>)
     /\ UNCHANGED << status, loaded, particles, species, interactions, locals,
                     globals, systems, outputPlugins, periodic, primaryCellSize,
                     systemTime, eventCount, endEventCount, freestreamAcc,
                     schedVars, captureMap, phaseLog, initOrder, replicas,
                     exchanges, lastRunMFT, topology, xmlFile, ptrScheduler,
                     ipCompression, lastReset, cellVars >>

(***************************************************************************)
(* A compression run as dynamod drives it: a configuration file is loaded, *)
(* the plugin makes the particles grow, the run is stepped, the system is  *)
(* restored, written to the file and, after a reset, loaded from it.       *)
(***************************************************************************)
CompressGlobals == { << >>, << "Cells" >>, << "Cells", "ShearingCells" >>,
                     << "Waker", "Cells" >> }
CompressDocs ==
  { [ written |-> TRUE, particles |-> {0, 1}, species |-> << {0, 1} >>,
      interactions |-> << Dumbbells(AllPairs({0, 1}), 1, 0) >>,
      locals |-> << >>, globals |-> g, periodic |-> FALSE,
      size |-> << 144, 144, 144 >>, scheduler |-> sch,
      hasMFT |-> TRUE, lastMFT |-> 12, properties |-> [L |-> 12, T |-> 24] ] :
      g \in CompressGlobals, sch \in { "NeighbourList", "Dumb" } }

CompressInit ==
  /\ SimInit /\ CellsIdle /\ ReplicasIdle /\ ExtrasFresh
  /\ xmlFile \in CompressDocs

CompressNext ==
  \/ /\ status = START
     /\ Len(globals) + Len(xmlFile.globals) <= MaxGlobals
     /\ LoadXMLfile(xmlFile, TRUE)
  \/ \E GR \in GrowthRates : loaded /\ status = START /\ IPCompression(GR)
  \/ loaded /\ status = START /\ AddOutputPlugin("Misc")
  \/ /\ loaded /\ status = START
     /\ ipCompression # NoCompression /\ liouvillean = "Newtonian"
     /\ MakeGrowth
  \/ loaded /\ status = START /\ Initialise("none", {}, OrcFound)
  \/ /\ status = INITIALISED /\ liouvillean = "Compression"
     /\ Len(globals) <= Len(CompressionFixes)
     /\ \A i \in 1..Len(CompressionFixes) : ~HasName(systems, CompressionFixes[i])
     /\ CellSchedulerHack
  \/ \E in \in StepInputs :
       /\ status = INITIALISED
       /\ systemTime < MaxTime
       /\ freestreamAcc < MaxCollisions
       /\ \A p \in particles : collCount[p] < MaxCollisions
       /\ in.efault = "none" /\ in.orc = OrcFound
       /\ RunSimulationStep(in.ev, in.efault, in.orc)
  \/ /\ status = INITIALISED /\ liouvillean = "Compression"
     /\ (systemTime * ipCompression.growthRate) % units.unitTime = 0
     /\ units.unitLength
          * rescale_factor(systemTime, ipCompression.growthRate, units.unitTime)
          <= MaxUnit
     /\ RestoreSystem
  \/ \E mft \in MFTs :
       status = INITIALISED /\ call.op # "writeXMLfile" /\ WriteXMLfile(mft)
  \/ call.op = "writeXMLfile" /\ Reset

SpecCompress == CompressInit /\ [][CompressNext]_vars

(***************************************************************************)
(* C23: a configuration written by writeXMLfile and read back by           *)
(* loadXMLfile under the same unit scales gives back the primaryCellSize   *)
(* and the lastRunMFT the simulation had when it wrote the file, whatever  *)
(* unitLength and unitTime are.  (A finite mean free time of the run       *)
(* replaces lastRunMFT in the file, so the law is stated for a run that    *)
(* has none.)                                                              *)
(***************************************************************************)
C23_SaveLoadIdentity ==
  [][ ( /\ call'.op = "loadXMLfile" /\ ~call'.threw
        /\ "saved" \in DOMAIN xmlFile
        /\ xmlFile.saved.units = units
        /\ xmlFile.saved.mft = HUGE_VAL )
      => /\ primaryCellSize' = xmlFile.saved.primaryCellSize
         /\ lastRunMFT' = xmlFile.saved.lastRunMFT ]_vars

(***************************************************************************)
(* C24: on load every dimensional value of the file (SimulationSize,       *)
(* lastMFT, the properties) is multiplied by its unit scale to give the    *)
(* simulation's value, and on save the simulation's value is divided by    *)
(* the unit scale to give the file's.                                      *)
(***************************************************************************)
C24_LoadMultipliesSaveDivides ==
  [][ /\ (call'.op = "loadXMLfile" /\ ~call'.threw) =>
           LET d == Complete(xmlFile)
           IN /\ primaryCellSize'
                   = [k \in 1..Len(d.size) |-> d.size[k] * units.unitLength]
              /\ d.hasMFT => lastRunMFT' = d.lastMFT * units.unitTime
              /\ properties' = [L |-> d.properties.L * units.unitLength,
                                T |-> d.properties.T * units.unitTime]
      /\ call'.op = "writeXMLfile" =>
           /\ \A k \in 1..Len(primaryCellSize) :
                xmlFile'.size[k] * units.unitLength = primaryCellSize[k]
           /\ (xmlFile'.hasMFT /\ xmlFile'.saved.mft = HUGE_VAL)
                => xmlFile'.lastMFT * units.unitTime = lastRunMFT
           /\ xmlFile'.properties.L * units.unitLength = properties.L
           /\ xmlFile'.properties.T * units.unitTime = properties.T ]_vars

\* Every neighbour list of globs has its SysNBListCompressionFix in syss.
Watched(syss, globs) ==
  \A i \in NBGlobals(globs) : HasName(syss, CompressionFixes[i])

KeepsOverlap(op) == op \notin { "CellSchedulerHack", "RestoreSystem", "loadXMLfile" }

(***************************************************************************)
(* C28, as stated: from CellSchedulerHack until RestoreSystem every        *)
(* neighbour-list global has cell overlap enabled and a                    *)
(* SysNBListCompressionFix among the systems that rebuilds its cells.      *)
(***************************************************************************)
C28_OverlapEnabledWhileCompressing ==
  [][ /\ call'.op = "CellSchedulerHack" =>
           /\ \A i \in NBGlobals(globals) : cellOverlap'[i] = TRUE
           /\ Watched(systems', globals)
      /\ KeepsOverlap(call'.op) => cellOverlap' = cellOverlap ]_vars

(***************************************************************************)
(* C28, amended: from CellSchedulerHack until RestoreSystem every          *)
(* neighbour-list global has cell overlap disabled, and a                  *)
(* SysNBListCompressionFix among the systems that rebuilds its cells: the  *)
(* hack adds exactly one such system per neighbour list, and no step but   *)
(* RestoreSystem (or a load) changes the overlap.                          *)
(***************************************************************************)
C28_OverlapDisabledWhileCompressing ==
  [][ /\ call'.op = "CellSchedulerHack" =>
           /\ \A i \in NBGlobals(globals) : cellOverlap'[i] = FALSE
           /\ Watched(systems', globals)
           /\ Len(systems') = Len(systems) + Cardinality(NBGlobals(globals))
           /\ SubSeq(systems', 1, Len(systems)) = systems
      /\ KeepsOverlap(call'.op) => cellOverlap' = cellOverlap ]_vars

\* A run is stepped between the hack and RestoreSystem with two neighbour
\* lists, both without overlap and both watched.
C28_Witness ==
  /\ call.op = "runSimulationStep" /\ ~call.threw
  /\ liouvillean = "Compression"
  /\ Cardinality(NBGlobals(globals)) = 2
  /\ \A i \in NBGlobals(globals) : cellOverlap[i] = FALSE
  /\ Watched(systems, globals)

\* The diameter the compression dynamics gives at time t to a particle of
\* diameter d at time 0, for the rate MakeGrowth hands it, growthRate /
\* unitTime, held as the fraction rate.n / rate.d.
growDiameter(d, rate, t) == (d * (rate.d + rate.n * t)) \div rate.d

(***************************************************************************)
(* C29: RestoreSystem multiplies the unit length, the unit time and the    *)
(* properties' length and time values by one factor,                       *)
(* 1 + dSysTime * growthRate / unitTime, which is the factor the diameters *)
(* have grown by: a diameter of one unit length when the growth began is   *)
(* one unit length afterwards.                                             *)
(***************************************************************************)
C29_RestoreSystemRescalesUnits ==
  [][ call'.op = "RestoreSystem" =>
        LET ut == units.unitTime
            grown == ut + systemTime * ipCompression.growthRate
        IN /\ units'.unitLength * ut = units.unitLength * grown
           /\ units'.unitTime * ut = units.unitTime * grown
           /\ properties'.L * ut = properties.L * grown
           /\ properties'.T * ut = properties.T * grown
           /\ growDiameter(units.unitLength,
                           [n |-> ipCompression.growthRate, d |-> ut],
                           systemTime) = units'.unitLength ]_vars

\* A restore after a run of one time unit at growth rate 2: factor 3.
C29_Witness ==
  /\ call.op = "RestoreSystem"
  /\ systemTime = 1 /\ ipCompression.growthRate = 2
  /\ units = [unitLength |-> 3, unitTime |-> 3]
  /\ properties = [L |-> 36, T |-> 72]

(***************************************************************************)
(* Simulation::checkSystem.  v holds what the validateState calls answer:  *)
(* v.inter[i] for interaction i as a whole, v.pair[i][{p, q}] for          *)
(* interaction i asked about a pair, v.local[n][p] for the local named n   *)
(* asked about a particle, and v.applies[n][p], the local's isInteraction. *)
(* The result is [threw, errors]; getInteraction throws for a pair that no *)
(* interaction is responsible for.                                         *)
(***************************************************************************)
RECURSIVE SetSum(_, _)
SetSum(f, S) ==
  IF S = {} THEN 0
  ELSE LET x == CHOOSE y \in S : TRUE IN f[x] + SetSum(f, S \ {x})

OrderedPairs(P) == { pq \in P \X P : pq[1] < pq[2] }

\* Faulty variant: every ordered pair is asked, so each pair counts twice.
checkSystemBothOrders(ints, P, locs, v) ==
  LET pairs == { pq \in P \X P : pq[1] # pq[2] }
      asked == [pq \in pairs |-> getInteraction(ints, pq[1], pq[2])]
      apply == { pk \in P \X (1..Len(locs)) : v.applies[locs[pk[2]]][pk[1]] }
  IN IF \E pq \in pairs : asked[pq] = 0
     THEN [threw |-> TRUE, errors |-> 0]
     ELSE [threw |-> FALSE,
           errors |->
             SeqSum([i \in 1..Len(ints) |-> v.inter[i]])
               + SetSum([pq \in pairs |-> v.pair[asked[pq]][{pq[1], pq[2]}]], pairs)
               + SetSum([pk \in apply |-> v.local[locs[pk[2]]][pk[1]]], apply)]

checkSystem(ints, P, locs, v) ==
  LET pairs == OrderedPairs(P)
      asked == [pq \in pairs |-> getInteraction(ints, pq[1], pq[2])]
      apply == { pk \in P \X (1..Len(locs)) : v.applies[locs[pk[2]]][pk[1]] }
  IN IF \E pq \in pairs : asked[pq] = 0
     THEN [threw |-> TRUE, errors |-> 0]
     ELSE [threw |-> FALSE,
           errors |->
             SeqSum([i \in 1..Len(ints) |-> v.inter[i]])
               + SetSum([pq \in pairs |-> v.pair[asked[pq]][{pq[1], pq[2]}]], pairs)
               + SetSum([pk \in apply |-> v.local[locs[pk[2]]][pk[1]]], apply)]

CheckSystem(v) ==
  /\ loaded
  /\ pecTime' = updateAllParticles(pecTime)
  /\ LET r == checkSystem(interactions, particles, locals, v)
     IN call' = MkCall("checkSystem", r.threw, r.errors, FALSE, NoEvent, << >>)
  /\ UNCHANGED << status, loaded, particles, species, interactions, locals,
                  globals, systems, outputPlugins, periodic, primaryCellSize,
                  systemTime, eventCount, endEventCount, freestreamAcc,
                  schedVars, captureMap, phaseLog, initOrder, replicas, extVars,
                  cellVars >>

\* The simulations checkSystem is tried on, and the answers of validateState.
CheckParticles == {0, 1, 2}
CheckLocals == { "Wall", "Floor" }
CheckLists ==
  { << Dumbbells(AllPairs(CheckParticles), 1, 0) >>,
    << Dumbbells({ {0, 1}, {0, 2} }, 1, 0), Dumbbells(AllPairs(CheckParticles), 1, 0) >>,
    << Dumbbells({ {0, 1} }, 1, 0), Dumbbells({ {0, 1}, {1, 2} }, 1, 0) >>,
    << >> }
Validations ==
  { [ inter |-> [i \in 1..MaxInteractions |-> a * i],
      pair |-> [i \in 1..MaxInteractions |->
                  [pr \in NonSelfPairs(CheckParticles) |->
                     CASE b = 0 -> 0
                       [] b = 1 -> 4 * i
                       [] OTHER -> IF 0 \in pr THEN 16 ELSE 0]],
      applies |-> [n \in CheckLocals |-> [q \in CheckParticles |->
                     CASE c = 0 -> FALSE
                       [] c = 1 -> TRUE
                       [] OTHER -> q = 0 /\ n = "Wall"]],
      local |-> [n \in CheckLocals |-> [q \in CheckParticles |-> 64]] ] :
      a \in 0..1, b \in 0..2, c \in 0..2 }

CheckInit ==
  /\ status = START
  /\ loaded = TRUE
  /\ particles = CheckParticles
  /\ species = << CheckParticles >>
  /\ interactions \in CheckLists
  /\ locals \in { << >>, << "Wall" >>, << "Floor", "Wall" >> }
  /\ globals = << >>
  /\ systems = << >>
  /\ outputPlugins = << >>
  /\ periodic = FALSE
  /\ primaryCellSize = << 4, 4, 4 >>
  /\ systemTime = 0
  /\ eventCount = 0
  /\ endEventCount = DefaultEndEventCount
  /\ freestreamAcc = 0
  /\ schedInitialised = FALSE
  /\ collCount = [q \in CheckParticles |-> 0]
  /\ pecTime = [q \in CheckParticles |-> 0]
  /\ queue = {}
  /\ captureMap \in { {}, { {0, 1} } }
  /\ call = Done("loadXMLfile")
  /\ phaseLog = << >>
  /\ initOrder = << >>
  /\ CellsIdle
  /\ ReplicasIdle /\ ExtrasIdle

CheckNext ==
  \/ \E v \in Validations : CheckSystem(v)
  \/ status = START /\ Initialise("none", captureMap, OrcFound)
  \/ \E in \in StepInputs :
       /\ status = INITIALISED
       /\ systemTime < MaxTime
       /\ in.efault = "none" /\ in.orc = OrcFound
       /\ RunSimulationStep(in.ev, in.efault, in.orc)

SpecCheck == CheckInit /\ [][CheckNext]_vars

\* The pairs no interaction is responsible for, and the first interaction
\* that is responsible for a pair.
Uncovered(ints, P) ==
  { pr \in NonSelfPairs(P) : \A i \in 1..Len(ints) : pr \notin ints[i].range }
FirstFor(ints, pr) ==
  CHOOSE i \in 1..Len(ints) :
    /\ pr \in ints[i].range
    /\ \A j \in 1..(i - 1) : pr \notin ints[j].range

(***************************************************************************)
(* C26: checkSystem is advisory.  Whatever the validateState calls answer, *)
(* it does not throw on their account and returns the sum of what they     *)
(* answer: every interaction once, every pair p < q once, asked of the     *)
(* first interaction in list order that is responsible for the pair, and   *)
(* every (particle, local) for which the local applies.  It changes        *)
(* neither status, eventCount nor the capture map.  The one throw is       *)
(* getInteraction's, for a pair no interaction is responsible for.         *)
(***************************************************************************)
C26_CheckSystemAdvisory ==
  [][ \A v \in Validations : CheckSystem(v) =>
        /\ status' = status /\ eventCount' = eventCount /\ captureMap' = captureMap
        /\ call'.threw <=> Uncovered(interactions, particles) # {}
        /\ ~call'.threw =>
             call'.ret =
               SetSum([i \in 1..Len(interactions) |-> v.inter[i]],
                      1..Len(interactions))
               + SetSum([pr \in NonSelfPairs(particles) |->
                           v.pair[FirstFor(interactions, pr)][pr]],
                        NonSelfPairs(particles))
               + SetSum([n \in CheckLocals |->
                           IF HasName(locals, n)
                           THEN SetSum([q \in particles |->
                                          IF v.applies[n][q] THEN v.local[n][q] ELSE 0],
                                       particles)
                           ELSE 0],
                        CheckLocals) ]_vars

\* An initialised simulation with a captured pair is checked: two
\* interactions (3), three pairs of which two are asked of the first
\* interaction and one of the second (4 + 4 + 8), one wall that applies to
\* one particle (64).
C26_Witness ==
  /\ call.op = "checkSystem" /\ ~call.threw
  /\ call.ret = 3 + 16 + 64
  /\ status = INITIALISED
  /\ captureMap = { {0, 1} }
  /\ Len(interactions) = 2

(***************************************************************************)
(* GParabolaSentinel::runEvent.  dt is the sentinel time getEvent          *)
(* recomputes, HUGE_VAL when there is none; orc is what the interactions   *)
(* answer when fullUpdate asks for the particle's new events.              *)
(***************************************************************************)
SentinelTimes == { 0, 1, HUGE_VAL }

\* Scheduler::stream: every queued event comes dt nearer
streamEvents(q, dt) == { [e EXCEPT !.dt = @ - dt] : e \in q }

\* Scheduler::fullUpdate(part) on the event state es
fullUpdateParticle(es, P, p, orc) ==
  LET cc == [es.collCount EXCEPT ![p] = @ + 1]
  IN [es EXCEPT !.collCount = cc,
                !.queue = @ \cup addEvents(es.captureMap, cc, P, p, orc),
                !.updates = Append(@, p)]

ParabolaEvent(part, dt) ==
  [NoEvent EXCEPT !.p1 = part, !.p2 = part, !.type = "VIRTUAL_PARABOLA", !.dt = dt]

\* Faulty variant: the events are rebuilt before the scheduler is streamed.
ParabolaRunEventUpdateFirst(part, dt, orc) ==
  LET passed == dt = HUGE_VAL
      es0 == [eventCount |-> eventCount, captureMap |-> captureMap,
              collCount |-> collCount, queue |-> queue,
              freestreamAcc |-> freestreamAcc, updates |-> << >>, threw |-> FALSE]
      es1 == fullUpdateParticle(es0, particles, part, orc)
  IN /\ part \in particles
     /\ systemTime' = IF passed THEN systemTime ELSE systemTime + dt
     /\ queue' = IF passed THEN es1.queue ELSE streamEvents(es1.queue, dt)
     /\ collCount' = es1.collCount
     /\ freestreamAcc' = IF passed THEN freestreamAcc
                         ELSE IF debugBuild THEN 0 ELSE freestreamAcc + dt
     /\ pecTime' = LET own == Synchronise(pecTime, << part >>)
                   IN Synchronise(IF passed THEN own ELSE stream(own, dt), es1.updates)
     /\ call' = MkCall("GParabolaSentinel::runEvent", FALSE, FALSE, ~passed,
                       ParabolaEvent(part, dt), es1.updates)
     /\ UNCHANGED << status, loaded, particles, species, interactions, locals,
                     globals, systems, outputPlugins, periodic, primaryCellSize,
                     eventCount, endEventCount, schedInitialised, captureMap,
                     phaseLog, initOrder, replicas, extVars, cellVars >>

\* Faulty variant: the sentinel event is counted as a collision.
ParabolaRunEventCounted(part, dt, orc) ==
  LET passed == dt = HUGE_VAL
      es0 == [eventCount |-> eventCount, captureMap |-> captureMap,
              collCount |-> collCount,
              queue |-> IF passed THEN queue ELSE streamEvents(queue, dt),
              freestreamAcc |-> freestreamAcc, updates |-> << >>, threw |-> FALSE]
      es1 == fullUpdateParticle(es0, particles, part, orc)
  IN /\ part \in particles
     /\ systemTime' = IF passed THEN systemTime ELSE systemTime + dt
     /\ queue' = es1.queue
     /\ collCount' = es1.collCount
     /\ eventCount' = IF passed THEN eventCount ELSE eventCount + 1
     /\ freestreamAcc' = IF passed THEN freestreamAcc
                         ELSE IF debugBuild THEN 0 ELSE freestreamAcc + dt
     /\ pecTime' = LET own == Synchronise(pecTime, << part >>)
                   IN Synchronise(IF passed THEN own ELSE stream(own, dt), es1.updates)
     /\ call' = MkCall("GParabolaSentinel::runEvent", FALSE, FALSE, ~passed,
                       ParabolaEvent(part, dt), es1.updates)
     /\ UNCHANGED << status, loaded, particles, species, interactions, locals,
                     globals, systems, outputPlugins, periodic, primaryCellSize,
                     endEventCount, schedInitialised, captureMap,
                     phaseLog, initOrder, replicas, extVars, cellVars >>

ParabolaRunEvent(part, dt, orc) ==
  LET passed == dt = HUGE_VAL
      es0 == [eventCount |-> eventCount, captureMap |-> captureMap,
              collCount |-> collCount,
              queue |-> IF passed THEN queue ELSE streamEvents(queue, dt),
              freestreamAcc |-> freestreamAcc, updates |-> << >>, threw |-> FALSE]
      es1 == fullUpdateParticle(es0, particles, part, orc)
  IN /\ part \in particles
     /\ systemTime' = IF passed THEN systemTime ELSE systemTime + dt
     /\ queue' = es1.queue
     /\ collCount' = es1.collCount
     /\ freestreamAcc' = IF passed THEN freestreamAcc
                         ELSE IF debugBuild THEN 0 ELSE freestreamAcc + dt
     /\ pecTime' = LET own == Synchronise(pecTime, << part >>)
                   IN Synchronise(IF passed THEN own ELSE stream(own, dt), es1.updates)
     /\ call' = MkCall("GParabolaSentinel::runEvent", FALSE, FALSE, ~passed,
                       ParabolaEvent(part, dt), es1.updates)
     /\ UNCHANGED << status, loaded, particles, species, interactions, locals,
                     globals, systems, outputPlugins, periodic, primaryCellSize,
                     eventCount, endEventCount, schedInitialised, captureMap,
                     phaseLog, initOrder, replicas, extVars, cellVars >>

\* An initialised simulation under gravity, in either build.
SentinelInit ==
  /\ status = INITIALISED
  /\ loaded = TRUE
  /\ particles = DocOpen.particles
  /\ species = DocOpen.species
  /\ interactions = DocOpen.interactions
  /\ locals = DocOpen.locals
  /\ globals = << "ParabolaSentinel" >>
  /\ systems = << >>
  /\ outputPlugins = << >>
  /\ periodic = DocOpen.periodic
  /\ primaryCellSize = DocOpen.size
  /\ systemTime = 0
  /\ eventCount = 0
  /\ endEventCount = DefaultEndEventCount
  /\ freestreamAcc = 0
  /\ schedInitialised = TRUE
  /\ collCount = [p \in DocOpen.particles |-> 0]
  /\ pecTime = [p \in DocOpen.particles |-> 0]
  /\ captureMap \in SUBSET NonSelfPairs(DocOpen.particles)
  /\ queue = schedulerQueue(captureMap, DocOpen.particles,
                            [pr \in NonSelfPairs(DocOpen.particles) |->
                               [found |-> TRUE, dt |-> 1]])
  /\ call = Done("initialise")
  /\ phaseLog = PhaseOrder
  /\ initOrder = << >>
  /\ debugBuild \in BOOLEAN
  /\ cells = [c \in CellIDs |-> -1]
  /\ partCellData = [i \in CellParticles |-> [prev |-> -1, next |-> -1, cell |-> -1]]
  /\ linked = {}
  /\ ReplicasIdle /\ ExtrasIdle

SentinelNext ==
  \/ \E part \in particles, dt \in SentinelTimes, orc \in Orcs :
       /\ systemTime < MaxEvents
       /\ \A p \in particles : collCount[p] <= MaxCounter
       /\ ParabolaRunEvent(part, dt, orc)
  \/ \E in \in StepInputs :
       /\ systemTime < MaxEvents
       /\ freestreamAcc < MaxCollisions
       /\ \A p \in particles : collCount[p] <= MaxCounter
       /\ in.efault = "none" /\ in.orc = OrcFound
       /\ RunSimulationStep(in.ev, in.efault, in.orc)

SpecSentinel == SentinelInit /\ [][SentinelNext]_vars

(***************************************************************************)
(* C27: in the production build GParabolaSentinel::runEvent adds to        *)
(* freestreamAcc exactly the time it advances the clock by.  With a finite *)
(* sentinel time dt, the system time, the scheduler's events and the       *)
(* particles are each streamed by dt and freestreamAcc grows by dt; with   *)
(* none, neither the system time, the scheduler's times nor freestreamAcc  *)
(* changes.  In both cases the particle's events are rebuilt exactly once, *)
(* as the last step: its counter goes up by one and its new events carry   *)
(* the times the interactions gave, not streamed.                          *)
(***************************************************************************)
C27_SentinelKeepsFreestreamAcc ==
  [][ (call'.op = "GParabolaSentinel::runEvent" /\ ~debugBuild) =>
        LET part == call'.ev.p1
            dt == IF call'.ev.dt = HUGE_VAL THEN 0 ELSE call'.ev.dt
            fresh == { e \in queue' : Valid(e, collCount') /\ Involves(e, part) }
        IN /\ freestreamAcc' - freestreamAcc = systemTime' - systemTime
           /\ systemTime' = systemTime + dt
           /\ freestreamAcc' = freestreamAcc + dt
           /\ \A e \in queue : [e EXCEPT !.dt = @ - dt] \in queue'
           /\ \A q \in particles \ {part} :
                pecTime'[q] = pecTime[q] + dt \/ pecTime'[q] = 0
           /\ call'.updates = << part >>
           /\ collCount' = [collCount EXCEPT ![part] = @ + 1]
           /\ \A e \in queue' : e \in fresh \/ [e EXCEPT !.dt = @ + dt] \in queue
           /\ \A e \in fresh : e.dt \in { o.dt : o \in Oracles } ]_vars

\* A sentinel event with a finite, positive time on a queue that holds
\* events has run in the production build, and so has one without a time.
C27_Witness ==
  /\ call.op = "GParabolaSentinel::runEvent" /\ ~debugBuild
  /\ call.ev.dt = 1
  /\ systemTime = 2 /\ freestreamAcc >= 1
  /\ \E e \in queue : ~Valid(e, collCount) /\ e.dt < 0
  /\ \E e \in queue : Valid(e, collCount) /\ e.dt = 1

(***************************************************************************)
(* The distances of IDumbbells: maxIntDist, the squared radius of the      *)
(* capture shell that getEvent hands to SphereSphereInRoot and             *)
(* SphereSphereOutRoot, and captureTest, over every length and radius up   *)
(* to MaxLength.  dist2 is the squared separation of the pair; a pair      *)
(* enters the shell when it is outside it and approaching.                 *)
(***************************************************************************)
MaxLength == 3   \* largest length and radius of a dumbbell explored

shellRadius2(intr) == intr.length * intr.length + 4 * intr.r * intr.r

SphereSphereInRoot(dist2, d2, approaching) ==
  [found |-> approaching /\ dist2 >= d2, dt |-> 1]

\* The separations a dumbbell is asked about: touching, and on either side
\* of its capture shell and of its interaction range.
RangeDist2s(intr) ==
  { d \in { shellRadius2(intr) + k : k \in {-1, 0, 1} }
           \cup { maxIntDist(intr) * maxIntDist(intr) + k : k \in {-1, 0, 1} }
           \cup { 0 } : d >= 0 }

MaxIntDist(i) ==
  /\ i \in 1..Len(interactions)
  /\ call' = MkCall("maxIntDist", FALSE, maxIntDist(interactions[i]), FALSE,
                    NoEvent, << >>)
  /\ UNCHANGED << simVars, schedVars, captureMap, phaseLog, initOrder, replicas,
                  extVars, cellVars >>

\* IDumbbells::getEvent for a pair at squared separation dist2; coreHit is
\* the answer of the off-centre collision test for a captured pair.
GetEventAt(p1, p2, dist2, approaching, coreHit) ==
  /\ getInteraction(interactions, p1, p2) # 0
  /\ LET intr == interactions[getInteraction(interactions, p1, p2)]
         o == IF isCaptured(captureMap, p1, p2)
              THEN [found |-> coreHit, dt |-> 1]
              ELSE SphereSphereInRoot(dist2, shellRadius2(intr), approaching)
     IN GetEvent(p1, p2, o)

RangeInit ==
  /\ status = INITIALISED
  /\ loaded = TRUE
  /\ particles = DocOpen.particles
  /\ species = DocOpen.species
  /\ interactions \in { << Dumbbells(AllPairs(DocOpen.particles), len, rad) >> :
                          len \in 0..MaxLength, rad \in 0..MaxLength }
  /\ locals = << >>
  /\ globals = << >>
  /\ systems = << >>
  /\ outputPlugins = << >>
  /\ periodic = FALSE
  /\ primaryCellSize = << 144, 144, 144 >>
  /\ systemTime = 0
  /\ eventCount = 0
  /\ endEventCount = DefaultEndEventCount
  /\ freestreamAcc = 0
  /\ schedInitialised = TRUE
  /\ collCount = [p \in DocOpen.particles |-> 0]
  /\ pecTime = [p \in DocOpen.particles |-> 0]
  /\ captureMap \in SUBSET NonSelfPairs(DocOpen.particles)
  /\ queue = {}
  /\ call = Done("initialise")
  /\ phaseLog = PhaseOrder
  /\ initOrder = << >>
  /\ CellsIdle
  /\ ReplicasIdle /\ ExtrasIdle

RangeNext ==
  \/ \E i \in 1..Len(interactions) : MaxIntDist(i)
  \/ \E dist2 \in RangeDist2s(interactions[1]) : CaptureTest(0, 1, dist2)
  \/ \E dist2 \in RangeDist2s(interactions[1]), approaching \in BOOLEAN,
          coreHit \in BOOLEAN :
       GetEventAt(0, 1, dist2, approaching, coreHit)

SpecRange == RangeInit /\ [][RangeNext]_vars

(***************************************************************************)
(* C30: for every non-negative length and radius, maxIntDist (length +     *)
(* 2 r) is at least the radius of the capture shell, whose square is       *)
(* length^2 + 4 r^2: getEvent reports a well entry for a free pair exactly *)
(* when the pair approaches from outside that shell, captureTest answers   *)
(* by the same squared radius, and so no pair farther apart than           *)
(* maxIntDist is taken for captured.                                       *)
(***************************************************************************)
C30_MaxIntDistBoundsShell ==
  [][ LET intr == interactions[1]
          l == intr.length
          rad == intr.r
          shell2 == l * l + 4 * rad * rad
      IN /\ call'.op = "maxIntDist" =>
              /\ call'.ret = l + 2 * rad
              /\ call'.ret * call'.ret >= shell2
         /\ \A dist2 \in RangeDist2s(intr) :
              /\ CaptureTest(0, 1, dist2) =>
                   /\ call'.ret <=> dist2 <= shell2
                   /\ call'.ret => dist2 <= maxIntDist(intr) * maxIntDist(intr)
              /\ \A approaching \in BOOLEAN, coreHit \in BOOLEAN :
                   (GetEventAt(0, 1, dist2, approaching, coreHit)
                      /\ ~isCaptured(captureMap, 0, 1))
                   => (call'.ev.type = "WELL_IN" <=> approaching /\ dist2 >= shell2) ]_vars

\* The range of a dumbbell with length 3 and radius 2 has been asked for:
\* 7, whose square 49 is above the shell's 25.
C30_Witness ==
  /\ call.op = "maxIntDist" /\ call.ret = 7
  /\ shellRadius2(interactions[1]) = 25

(***************************************************************************)
(* Properties of the stepping loop, checked under Spec.                    *)
(***************************************************************************)

\* C31: every runSimulationStep call that returns has run exactly one
\* scheduler event, the next valid one, also when eventCount had already
\* reached endEventCount before the call: the clock moves by that event's
\* dt, the collision counters of its two particles advance by one and no
\* other counter moves, eventCount grows by one for a CORE event and not at
\* all otherwise.  The value returned is true exactly when eventCount is
\* below endEventCount after the event.
C31_StepRunsOneEventThenCompares ==
  [][ (call'.op = "runSimulationStep" /\ ~call'.threw) =>
        /\ call'.sched
        /\ call'.ev \in queue /\ Valid(call'.ev, collCount)
        /\ systemTime' = systemTime + call'.ev.dt
        /\ \A p \in particles :
             collCount'[p] = collCount[p] + (IF Involves(call'.ev, p) THEN 1 ELSE 0)
        /\ eventCount' = eventCount + (IF call'.ev.type = "CORE" THEN 1 ELSE 0)
        /\ endEventCount' = endEventCount
        /\ call'.ret <=> (eventCount' < endEventCount') ]_vars

\* A virtual event was run by a step that began with the budget used up.
C31_Witness ==
  /\ call.op = "runSimulationStep" /\ ~call.threw
  /\ call.sched
  /\ call.ev.type \in {"WELL_IN", "WELL_OUT"}
  /\ eventCount >= endEventCount
  /\ call.ret = FALSE

(***************************************************************************)
(* A three-particle simulation that runs events, is asked to shut down,    *)
(* exchanges its clock and event count with a partner, and is reset and    *)
(* initialised again.                                                      *)
(***************************************************************************)
ShutdownPartners ==
  { [systemTime |-> 0, eventCount |-> n] : n \in {0, MaxCollisions} }

ShutdownNext ==
  \/ \E in \in StepInputs :
       /\ systemTime < MaxEvents
       /\ freestreamAcc < MaxCollisions
       /\ \A p \in particles : collCount[p] < MaxCollisions
       /\ in.efault = "none" /\ in.orc = OrcFound
       /\ RunSimulationStep(in.ev, in.efault, in.orc)
  \/ SimShutdown
  \/ \E partner \in ShutdownPartners : ReplexerSwap(partner)
  \/ Reset
  \/ \E in \in InitInputs :
       /\ in.fault = "none" /\ in.cap = {} /\ in.orc = OrcFound
       /\ Initialise(in.fault, in.cap, in.orc)

SpecShutdown == ClockInit /\ [][ShutdownNext]_vars

\* C32 as stated: once simShutdown has been called (endEventCount is no
\* longer the constructor's value), no runSimulationStep that returns gives
\* true, whatever was called in between.
C32_ShutdownIsFinal ==
  [][ (endEventCount # DefaultEndEventCount
         /\ call'.op = "runSimulationStep" /\ ~call'.threw)
        => call'.ret = FALSE ]_vars

\* C32, amended: simShutdown leaves eventCount at endEventCount; from a
\* state with eventCount >= endEventCount every call other than
\* replexerSwap and reset keeps eventCount >= endEventCount, and a
\* runSimulationStep that returns there gives false.  replexerSwap (the
\* partner's eventCount, endEventCount kept) and reset (eventCount = 0)
\* can bring eventCount below endEventCount again.
C32_ShutdownHoldsUntilSwapOrReset ==
  [][ /\ call'.op = "simShutdown" => eventCount' >= endEventCount'
      /\ (eventCount >= endEventCount
            /\ call'.op \notin {"replexerSwap", "reset"}) =>
           /\ eventCount' >= endEventCount'
           /\ (call'.op = "runSimulationStep" /\ ~call'.threw)
                => call'.ret = FALSE ]_vars

\* Two events were run after the shutdown request and the step still says
\* stop.
C32_Witness ==
  /\ call.op = "runSimulationStep" /\ ~call.threw
  /\ endEventCount # DefaultEndEventCount
  /\ eventCount >= endEventCount + 2
  /\ call.ret = FALSE

(***************************************************************************)
(* The event loop of the three-particle simulation while every handler     *)
(* completes: the pairs start captured or not, and the root finders give   *)
(* any answer.                                                             *)
(***************************************************************************)
WellsNext ==
  \E in \in StepInputs :
    /\ systemTime < MaxEvents
    /\ in.efault = "none"
    /\ RunSimulationStep(in.ev, in.efault, in.orc)

SpecWells == EventsInit /\ [][WellsNext]_vars

\* C33: the well events that are executed for a pair alternate, starting
\* with WELL_IN from an uncaptured pair: a WELL_IN event is never run
\* (addToCaptureMap) for a pair already in the capture map and a WELL_OUT
\* event never (removeFromCaptureMap) for a pair outside it, although the
\* same well event is queued once under each of its two particles.
C33_WellEventsAlternate ==
  [][ call'.op = "runSimulationStep" =>
        /\ call'.ev.type = "WELL_IN" => EventPair(call'.ev) \notin captureMap
        /\ call'.ev.type = "WELL_OUT" => EventPair(call'.ev) \in captureMap ]_vars

\* A WELL_OUT event was run for a captured pair while its copy, queued
\* under the other particle of the pair, was in the queue; the copy is stale
\* now.
C33_Witness ==
  /\ call.op = "runSimulationStep" /\ ~call.threw
  /\ call.ev.type = "WELL_OUT"
  /\ EventPair(call.ev) \notin captureMap
  /\ \E e \in queue :
       /\ e.type = "WELL_OUT"
       /\ e.p1 = call.ev.p2 /\ e.p2 = call.ev.p1
       /\ ~Valid(e, collCount)

(***************************************************************************)
(* The event counter and the free-streaming accumulator, checked under     *)
(* SpecSentinel: interaction events and sentinel events, in either build.  *)
(***************************************************************************)
SentinelDt(ev) == IF ev.dt = HUGE_VAL THEN 0 ELSE ev.dt

\* C34 as stated: eventCount never decreases while events run; a CORE event
\* adds exactly 1 to it; WELL_IN, WELL_OUT and the parabola sentinel leave
\* it unchanged and add their dt to freestreamAcc.
C34_VirtualEventsAddToFreestreamAcc ==
  [][ /\ eventCount' >= eventCount
      /\ (call'.op = "runSimulationStep" /\ ~call'.threw) =>
           IF call'.ev.type = "CORE"
           THEN eventCount' = eventCount + 1
           ELSE /\ eventCount' = eventCount
                /\ freestreamAcc' = freestreamAcc + call'.ev.dt
      /\ call'.op = "GParabolaSentinel::runEvent" =>
           /\ eventCount' = eventCount
           /\ freestreamAcc' = freestreamAcc + SentinelDt(call'.ev) ]_vars

\* C34, amended: the same, with the parabola sentinel adding its dt to
\* freestreamAcc in the production build only; in a debug build a sentinel
\* event with a finite time sets freestreamAcc to zero.
C34_VirtualEventsAddInProduction ==
  [][ /\ eventCount' >= eventCount
      /\ (call'.op = "runSimulationStep" /\ ~call'.threw) =>
           IF call'.ev.type = "CORE"
           THEN eventCount' = eventCount + 1
           ELSE /\ eventCount' = eventCount
                /\ freestreamAcc' = freestreamAcc + call'.ev.dt
      /\ call'.op = "GParabolaSentinel::runEvent" =>
           /\ eventCount' = eventCount
           /\ freestreamAcc' =
                IF debugBuild /\ call'.ev.dt # HUGE_VAL THEN 0
                ELSE freestreamAcc + SentinelDt(call'.ev) ]_vars

\* After one collision a sentinel event has run in the production build:
\* the count is still 1 and the sentinel's time is in freestreamAcc.
C34_Witness ==
  /\ call.op = "GParabolaSentinel::runEvent" /\ ~debugBuild
  /\ call.ev.dt = 1
  /\ eventCount = 1
  /\ freestreamAcc = 1

(***************************************************************************)
(* A simulation that is loaded, given output plugins, initialised, run,    *)
(* reset and initialised again, with or without periodic boundaries.  No   *)
(* component's initialise() fails of its own.                              *)
(***************************************************************************)
ReinitDocs == { DocThree, DocPeriodic }

ReinitNext ==
  \/ \E doc \in ReinitDocs : ~loaded /\ LoadXMLfile(doc, TRUE)
  \/ \E name \in PluginNames : loaded /\ AddOutputPlugin(name)
  \/ \E in \in InitInputs :
       /\ loaded
       /\ in.fault = "none" /\ in.cap = {} /\ in.orc = OrcFound
       /\ Initialise(in.fault, in.cap, in.orc)
  \/ \E in \in StepInputs :
       /\ status < INITIALISED
            \/ /\ systemTime < MaxTime /\ freestreamAcc < MaxCollisions
               /\ \A p \in particles : collCount[p] < MaxCounter
       /\ in.efault = "none" /\ in.orc = OrcFound
       /\ RunSimulationStep(in.ev, in.efault, in.orc)
  \/ Reset

SpecReinit == Init /\ [][ReinitNext]_vars

\* C35 as stated: when a simulation has been reset and the output plugins
\* that reset() cleared have been added again, initialise does not throw
\* and leaves the status INITIALISED.
C35_ResetThenInitialiseSucceeds ==
  [][ (call'.op = "initialise"
         /\ lastReset.happened /\ status = START
         /\ outputPlugins = lastReset.outputPlugins)
        => (~call'.threw /\ status' = INITIALISED) ]_vars

Sentinels(globs) == { i \in 1..Len(globs) : globs[i] = "PBCSentinel" }

\* C36 as stated: in every reachable state the globals list holds at most
\* one PBC sentinel, whatever initialise and reset calls were made.
C36_AtMostOnePBCSentinel ==
  Cardinality(Sentinels(globals)) <= 1

(***************************************************************************)
(* Further properties of the lifecycle, checked under Spec.                *)
(***************************************************************************)

\* C37: an initialise that throws leaves status at the last phase it
\* assigned (where it was, when it assigned none); from a status strictly
\* between START and INITIALISED no call changes the status, and every
\* initialise, loadXMLfile, reset and runSimulationStep throws: the
\* simulation reaches neither INITIALISED nor START again.
C37_FailedInitialiseIsFinal ==
  [][ /\ (call'.op = "initialise" /\ call'.threw) =>
           status' = IF phaseLog' = << >> THEN status
                     ELSE phaseLog'[Len(phaseLog')]
      /\ (status # START /\ status # INITIALISED) =>
           /\ status' = status
           /\ call'.op \in {"initialise", "loadXMLfile", "reset", "runSimulationStep"}
                => call'.threw ]_vars

\* A reset was refused on a simulation whose initialise had stopped after
\* some phase.
C37_Witness ==
  /\ status # START /\ status # INITIALISED
  /\ phaseLog # << >> /\ phaseLog[Len(phaseLog)] = status
  /\ call.op = "reset" /\ call.threw

\* C38 as stated: in every state in which runSimulationStep is let through
\* to the scheduler (status INITIALISED), Scheduler::initialise has been
\* run by initialise, whatever endEventCount is.
C38_SchedulerReadyWhenInitialised ==
  status = INITIALISED => schedInitialised

(***************************************************************************)
(* Further properties of the compression plugin, checked under             *)
(* SpecCompress.                                                           *)
(***************************************************************************)

MaxRoot == 2     \* largest cube root of a packing fraction explored
PackingFractions == { r * r * r : r \in 0..MaxRoot }
LimitRates == { -1, 1, 2 }

CubeRoot(v) == CHOOSE r \in 0..v : r * r * r = v

Fin(n, d) == [k |-> "fin", n |-> n, d |-> d]
PlusInf == [k |-> "inf", n |-> 1, d |-> 0]
NaN == [k |-> "nan", n |-> 0, d |-> 0]

\* (pow(targetp / packfrac, 1.0/3.0) - 1.0) / growthRate
haltTime(targetp, packfrac, growthRate) ==
  LET grown == IF packfrac = 0
               THEN IF targetp = 0 THEN NaN ELSE PlusInf
               ELSE Fin(CubeRoot(targetp) - CubeRoot(packfrac), CubeRoot(packfrac))
  IN CASE grown.k = "nan" -> NaN
       [] grown.k = "inf" -> [grown EXCEPT !.n = IF growthRate > 0 THEN @ ELSE -@]
       [] OTHER -> IF growthRate > 0
                   THEN Fin(grown.n, grown.d * growthRate)
                   ELSE Fin(-grown.n, grown.d * (-growthRate))

\* Faulty variant: limitPackingFraction() without the test of the target.
LimitPackingFractionNoTest(targetp, packfrac) ==
  /\ ipCompression # NoCompression
  /\ Len(systems) < MaxSystems
  /\ systems' = Append(systems, "CompresionLimiter")
  /\ call' = MkCall("limitPackingFraction", FALSE,
                    [targetp |-> targetp, packfrac |-> packfrac,
                     dt |-> haltTime(targetp, packfrac, ipCompression.growthRate)],
                    FALSE, NoEvent, << >>)
  /\ UNCHANGED << status, loaded, particles, species, interactions, locals,
                  globals, outputPlugins, periodic, primaryCellSize, systemTime,
                  eventCount, endEventCount, freestreamAcc, pecTime, schedVars,
                  captureMap, phaseLog, initOrder, replicas, extVars, cellVars >>

LimitPackingFraction(targetp, packfrac) ==
  /\ ipCompression # NoCompression
  /\ IF targetp < packfrac
     THEN /\ call' = MkCall("limitPackingFraction", TRUE,
                            [targetp |-> targetp, packfrac |-> packfrac, dt |-> NaN],
                            FALSE, NoEvent, << >>)
          /\ UNCHANGED systems
     ELSE /\ Len(systems) < MaxSystems
          /\ systems' = Append(systems, "CompresionLimiter")
          /\ call' = MkCall("limitPackingFraction", FALSE,
                            [targetp |-> targetp, packfrac |-> packfrac,
                             dt |-> haltTime(targetp, packfrac,
                                             ipCompression.growthRate)],
                            FALSE, NoEvent, << >>)
  /\ UNCHANGED << status, loaded, particles, species, interactions, locals,
                  globals, outputPlugins, periodic, primaryCellSize, systemTime,
                  eventCount, endEventCount, freestreamAcc, pecTime, schedVars,
                  captureMap, phaseLog, initOrder, replicas, extVars, cellVars >>

\* A compression plugin of any growth rate on a simulation that is empty or
\* has a configuration loaded, asked to limit the packing fraction.
LimitNext ==
  \/ ~loaded /\ LoadXMLfile(DocOpen, TRUE)
  \/ \E GR \in LimitRates : IPCompression(GR)
  \/ \E targetp \in PackingFractions, packfrac \in PackingFractions :
       /\ particles = {} => packfrac = 0
       /\ LimitPackingFraction(targetp, packfrac)

SpecLimit == Init /\ [][LimitNext]_vars

NonNegative(t) == (t.k = "fin" /\ t.n >= 0) \/ (t.k = "inf" /\ t.n > 0)
IsZero(t) == t.k = "fin" /\ t.n = 0

\* C40 as stated: limitPackingFraction with a target below the current
\* packing fraction throws and adds no system; with a target equal to or
\* above it, it appends exactly one halt system, whose time is not
\* negative, and is zero when the target equals the current value.
C40_LimitAddsOneHaltNotInThePast ==
  [][ call'.op = "limitPackingFraction" =>
        IF call'.ret.targetp < call'.ret.packfrac
        THEN call'.threw /\ systems' = systems
        ELSE /\ ~call'.threw
             /\ systems' = Append(systems, "CompresionLimiter")
             /\ NonNegative(call'.ret.dt)
             /\ call'.ret.targetp = call'.ret.packfrac => IsZero(call'.ret.dt) ]_vars

\* C40, amended: the same, with the time not negative, and zero for a
\* target equal to the current value, when the growth rate is positive and
\* the current packing fraction is not zero.
C40_LimitAddsOneHaltForPositiveGrowth ==
  [][ call'.op = "limitPackingFraction" =>
        IF call'.ret.targetp < call'.ret.packfrac
        THEN call'.threw /\ systems' = systems
        ELSE /\ ~call'.threw
             /\ systems' = Append(systems, "CompresionLimiter")
             /\ (ipCompression.growthRate > 0 /\ call'.ret.packfrac > 0) =>
                  /\ NonNegative(call'.ret.dt)
                  /\ call'.ret.targetp = call'.ret.packfrac
                       => IsZero(call'.ret.dt) ]_vars

\* A second limiter, at time zero, was added for a target equal to the
\* current packing fraction of a loaded configuration.
C40_Witness ==
  /\ call.op = "limitPackingFraction" /\ ~call.threw
  /\ ipCompression.growthRate > 0
  /\ call.ret.targetp = call.ret.packfrac /\ call.ret.packfrac > 0
  /\ IsZero(call.ret.dt)
  /\ Len(systems) = 2

=============================================================================
